---- MODULE Spec2Model ----
(***************************************************************************)
(* Model of the contact-extraction engine of outlook-contacts-exporter:    *)
(* the web worker (decodeXmlBytes .. self.onmessage) and the formatters it *)
(* shares with the command-line tool.                                      *)
(*                                                                         *)
(* Text is modelled as a sequence of one-character strings, so that        *)
(* lowercasing, entity decoding, trimming, quoting and splitting are       *)
(* computed character by character as the code computes them.              *)
(***************************************************************************)
EXTENDS Integers, Sequences, FiniteSets, TLC

VARIABLES
  archive,            \* the request: [loadable, members], the .olm file posted to the worker
  extractFromPreview, \* the request's flag
  pc,                 \* position of the worker's handler
  totalFiles,         \* xmlFiles.length
  processedFiles,     \* loop counter of self.onmessage
  parseErrors,        \* per-run error counter
  contacts,           \* the ContactMap, in insertion (iteration) order
  pending,            \* observations of the current member not yet folded
  observed,           \* history: every candidate handed to addContact so far
  msgs,               \* messages posted with self.postMessage, in order
  result,             \* payload of the 'complete' message
  contactsB,          \* second registry (order-independence runs only)
  pendingB,           \* second registry's remaining candidates
  previewArg,         \* argument of extractEmailsFromPreview (preview runs only)
  xmlBytes,           \* argument of decodeXmlBytes (decoder runs only)
  xmlContent,         \* the text decodeXmlBytes returns (decoder runs only)
  runs,               \* history: the outcome of each earlier run of this worker
  app,                \* the App component's state: [state, extractFromPreview, progress, result, fileName]
  workers,            \* the Worker objects the App has created, in order of creation
  timers,             \* setTimeout callbacks of the App that have not run yet
  alerts,             \* history: the texts the App has shown with alert()
  input,              \* the command-line tool's input path: what it names on disk
  tempDir,            \* main's tempDir (command-line tool)
  dirs,               \* the directories that exist on disk (command-line tool)
  walk,               \* processDir's call stack: the entries each call has still to visit
  fileCount,          \* processDirectory's counter
  visited,            \* history: the files processDirectory has tried to read
  parsed              \* argument of extractContactsFromParsed (tree runs only)

\* the App's variables and the command-line tool's
appVars == <<app, workers, timers, alerts>>
cliVars == <<input, tempDir, dirs, walk, fileCount, visited, parsed>>

vars == <<archive, extractFromPreview, pc, totalFiles, processedFiles, parseErrors,
          contacts, pending, observed, msgs, result, contactsB, pendingB,
          previewArg, xmlBytes, xmlContent, runs, app, workers, timers, alerts,
          input, tempDir, dirs, walk, fileCount, visited, parsed>>

---------------------------------------------------------------------------
(* Characters and strings *)

\* the cased characters among those a string of the model can hold (U+0000 to
\* U+00FF): A-Z and the Latin-1 capitals U+00C0-U+00DE without U+00D7, each
\* with the character String.prototype.toLowerCase gives for it
UpperChars == <<"A","B","C","D","E","F","G","H","I","J","K","L","M",
                "N","O","P","Q","R","S","T","U","V","W","X","Y","Z",
                "À","Á","Â","Ã","Ä","Å","Æ","Ç","È","É","Ê","Ë","Ì","Í","Î",
                "Ï","Ð","Ñ","Ò","Ó","Ô","Õ","Ö","Ø","Ù","Ú","Û","Ü","Ý","Þ">>
LowerChars == <<"a","b","c","d","e","f","g","h","i","j","k","l","m",
                "n","o","p","q","r","s","t","u","v","w","x","y","z",
                "à","á","â","ã","ä","å","æ","ç","è","é","ê","ë","ì","í","î",
                "ï","ð","ñ","ò","ó","ô","õ","ö","ø","ù","ú","û","ü","ý","þ">>

UpperSet == {UpperChars[i] : i \in 1..Len(UpperChars)}

LowerOf ==
  [c \in UpperSet |-> LowerChars[CHOOSE i \in 1..Len(UpperChars) : UpperChars[i] = c]]

IsUpper(c) == c \in UpperSet

toLowerCaseChar(c) == IF IsUpper(c) THEN LowerOf[c] ELSE c

\* String.prototype.toLowerCase
toLowerCase(s) ==
  LET out == {[i \in 1..Len(t) |-> toLowerCaseChar(t[i])] : t \in {s}}
  IN CHOOSE x \in out : TRUE

\* String.prototype.includes for a single character
includes(s, c) == \E i \in 1..Len(s) : s[i] = c

\* the characters the regular expression class \s and String.prototype.trim take
\* as white space, among those a string of the model can hold (U+0000 to
\* U+00FF): space, tab, line feed, carriage return, form feed, vertical tab
\* (U+000B) and the no-break space (U+00A0)
VerticalTab  == ""
NoBreakSpace == " "

IsSpace(c) == c \in {" ", "\t", "\n", "\r", "\f", VerticalTab, NoBreakSpace}

RECURSIVE trimStart(_)
trimStart(s) ==
  IF s # <<>> /\ IsSpace(Head(s)) THEN trimStart(Tail(s)) ELSE s

RECURSIVE trimEnd(_)
trimEnd(s) ==
  IF s # <<>> /\ IsSpace(s[Len(s)]) THEN trimEnd(SubSeq(s, 1, Len(s) - 1)) ELSE s

\* String.prototype.trim
trim(s) == trimEnd(trimStart(s))

\* does pat occur in s at index i
StartsWithAt(s, i, pat) ==
  /\ i + Len(pat) - 1 <= Len(s)
  /\ \A k \in 1..Len(pat) : s[i + k - 1] = pat[k]

\* concatenation of the pieces lo..hi of a sequence of strings
RECURSIVE flatten(_, _, _)
flatten(pieces, lo, hi) ==
  IF lo > hi THEN <<>>
  ELSE IF lo = hi THEN pieces[lo]
  ELSE LET mid == (lo + hi) \div 2
       IN flatten(pieces, lo, mid) \o flatten(pieces, mid + 1, hi)

\* String.prototype.replace(/pat/g, rep) for a literal pattern no proper prefix
\* of which is also its suffix (the entities, the double quote): occurrences of
\* such a pattern cannot overlap, so every occurrence is replaced
replaceAll(s, pat, rep) ==
  LET piece(t, i) ==
        IF StartsWithAt(t, i, pat) THEN rep
        ELSE IF \E j \in 1..(Len(pat) - 1) : j < i /\ StartsWithAt(t, i - j, pat)
          THEN <<>>
          ELSE <<t[i]>>
      out == {flatten([i \in 1..Len(t) |-> piece(t, i)], 1, Len(t)) : t \in {s}}
  IN IF ~includes(s, pat[1]) THEN s ELSE CHOOSE x \in out : TRUE

\* Array.prototype.join
RECURSIVE join(_, _)
join(parts, sep) ==
  IF parts = <<>> THEN <<>>
  ELSE IF Len(parts) = 1 THEN parts[1]
  ELSE parts[1] \o sep \o join(Tail(parts), sep)

Digits == <<"0","1","2","3","4","5","6","7","8","9">>

\* number to decimal text, as a template literal renders a non-negative integer
RECURSIVE numberToString(_)
numberToString(n) ==
  IF n < 10 THEN <<Digits[n + 1]>>
  ELSE numberToString(n \div 10) \o <<Digits[(n % 10) + 1]>>

---------------------------------------------------------------------------
(* The Contact Aggregator *)

Sources == {"from", "to", "cc", "bcc"}

\* position of the entry stored under a key of the ContactMap, 0 when absent
IndexOfKey(cs, k) ==
  IF \E i \in 1..Len(cs) : cs[i].key = k
    THEN CHOOSE i \in 1..Len(cs) : cs[i].key = k
    ELSE 0

\* addContact as a bug would have it: a later name overwrites the retained one
addContactLastName(cs, email, name, source) ==
  LET i == IndexOfKey(cs, email) IN
  IF i # 0
    THEN [cs EXCEPT ![i].count = @ + 1,
                    ![i].name = IF name # <<>> THEN name ELSE @]
    ELSE Append(cs, [key |-> email, email |-> email, name |-> name,
                     source |-> source, count |-> 1])

\* addContact as a bug would have it: a later role overwrites the first one
addContactLastSource(cs, email, name, source) ==
  LET i == IndexOfKey(cs, email) IN
  IF i # 0
    THEN [cs EXCEPT ![i].count = @ + 1,
                    ![i].name = IF name # <<>> /\ @ = <<>> THEN name ELSE @,
                    ![i].source = source]
    ELSE Append(cs, [key |-> email, email |-> email, name |-> name,
                     source |-> source, count |-> 1])

\* addContact as a bug would have it: a repeated address is not counted when
\* it brings the name
addContactSkipCount(cs, email, name, source) ==
  LET i == IndexOfKey(cs, email) IN
  IF i # 0
    THEN IF name # <<>> /\ cs[i].name = <<>>
           THEN [cs EXCEPT ![i].name = name]
           ELSE [cs EXCEPT ![i].count = @ + 1]
    ELSE Append(cs, [key |-> email, email |-> email, name |-> name,
                     source |-> source, count |-> 1])

addContact(cs, email, name, source) ==
  LET i == IndexOfKey(cs, email) IN
  IF i # 0
    THEN [cs EXCEPT ![i].count = @ + 1,
                    ![i].name = IF name # <<>> /\ @ = <<>> THEN name ELSE @]
    ELSE Append(cs, [key |-> email, email |-> email, name |-> name,
                     source |-> source, count |-> 1])

---------------------------------------------------------------------------
(* Entity decoding and the preview-text extractor *)

EntLt   == <<"&","l","t",";">>
EntGt   == <<"&","g","t",";">>
EntAmp  == <<"&","a","m","p",";">>
EntQuot == <<"&","q","u","o","t",";">>
EntApos == <<"&","#","3","9",";">>

\* the chain of five global replaces, applied in the order the code writes them
decodeXmlEntities(text) ==
  replaceAll(replaceAll(replaceAll(replaceAll(replaceAll(text,
    EntLt, <<"<">>), EntGt, <<">">>), EntAmp, <<"&">>), EntQuot, <<"\"">>),
    EntApos, <<"'">>)

\* the same chain at the head of extractEmailsFromPreview
decodedText(previewText) ==
  replaceAll(replaceAll(replaceAll(replaceAll(replaceAll(previewText,
    EntLt, <<"<">>), EntGt, <<">">>), EntAmp, <<"&">>), EntQuot, <<"\"">>),
    EntApos, <<"'">>)

\* least index r >= i with t[r] = ">", 0 when there is none
FirstGt(t, i) ==
  IF \E r \in i..Len(t) : t[r] = ">"
    THEN CHOOSE r \in i..Len(t) : t[r] = ">" /\ \A m \in i..(r - 1) : t[m] # ">"
    ELSE 0

\* previewMatch[1].replace(/<[^>]+>/g, ''): drop every "<", one or more
\* characters other than ">", ">". A "<" that opens such a run and lies inside
\* an earlier match closes at the same ">" as that match, so a character is
\* dropped exactly when some "<" at or before it opens a run that reaches it.
stripTags(t) ==
  LET opens == {i \in 1..Len(t) : t[i] = "<" /\ FirstGt(t, i + 1) >= i + 2}
      dropped(j) == \E i \in opens : i <= j /\ FirstGt(t, i + 1) >= j
  IN flatten([j \in 1..Len(t) |-> IF dropped(j) THEN <<>> ELSE <<t[j]>>], 1, Len(t))

\* headerRegex = /(From|To|Cc):\s*(.+?)\s*<([^>]+)>/gim
HeaderKeywords == << <<"f","r","o","m">>, <<"t","o">>, <<"c","c">> >>

\* which alternative of (From|To|Cc) matches at i, ignoring case; 0 when none
KeywordAt(t, i) ==
  IF \E k \in 1..Len(HeaderKeywords) :
       /\ i + Len(HeaderKeywords[k]) - 1 <= Len(t)
       /\ toLowerCase(SubSeq(t, i, i + Len(HeaderKeywords[k]) - 1)) = HeaderKeywords[k]
    THEN CHOOSE k \in 1..Len(HeaderKeywords) :
       /\ i + Len(HeaderKeywords[k]) - 1 <= Len(t)
       /\ toLowerCase(SubSeq(t, i, i + Len(HeaderKeywords[k]) - 1)) = HeaderKeywords[k]
    ELSE 0

\* "." matches every character but a line terminator
IsDot(c) == c \notin {"\n", "\r"}

\* length of the run of white space starting at i
SpaceRun(t, i) ==
  LET stop == CHOOSE j \in i..(Len(t) + 1) :
                /\ j = Len(t) + 1 \/ ~IsSpace(t[j])
                /\ \A m \in i..(j - 1) : IsSpace(t[m])
  IN IF i > Len(t) THEN 0 ELSE stop - i

NoMatch == [ok |-> FALSE, headerType |-> 0, name |-> <<>>, email |-> <<>>, end |-> 0]

\* \s*<([^>]+)> after a name that ends before e: both quantifiers are greedy and
\* only their longest match can be followed by the next literal
TailAt(t, e) ==
  LET q == e + SpaceRun(t, e)
      r == FirstGt(t, q + 1)
  IN  IF q <= Len(t) /\ t[q] = "<" /\ r >= q + 2
        THEN [ok |-> TRUE, q |-> q, r |-> r]
        ELSE [ok |-> FALSE, q |-> 0, r |-> 0]

\* (.+?) from s: the shortest name s..e-1 of "." characters after which the tail matches
LazyName(t, kw, s) ==
  LET fits(e) == /\ TailAt(t, e).ok
                 /\ \A m \in s..(e - 1) : IsDot(t[m])
      ends == {e \in (s + 1)..(Len(t) + 1) : fits(e)}
  IN IF ends = {} THEN NoMatch
     ELSE LET e  == CHOOSE x \in ends : \A y \in ends : x <= y
              tl == TailAt(t, e)
          IN [ok |-> TRUE, headerType |-> kw,
              name |-> SubSeq(t, s, e - 1),
              email |-> SubSeq(t, tl.q + 1, tl.r - 1),
              end |-> tl.r + 1]

\* the leading \s* is greedy: k white-space characters first, then fewer
RECURSIVE AfterColon(_, _, _, _)
AfterColon(t, kw, p, k) ==
  LET m == LazyName(t, kw, p + k) IN
  IF m.ok \/ k = 0 THEN m ELSE AfterColon(t, kw, p, k - 1)

\* one attempt of the regular expression at index i
MatchAt(t, i) ==
  LET kw == KeywordAt(t, i) IN
  IF kw = 0 THEN NoMatch
  ELSE LET c == i + Len(HeaderKeywords[kw]) IN
       IF c > Len(t) \/ t[c] # ":" THEN NoMatch
       ELSE AfterColon(t, kw, c + 1, SpaceRun(t, c + 1))

\* the loop as a bug would make it: exec is called once, only the first match
\* is taken
execFirst(t, i) ==
  LET starts == {j \in i..Len(t) : MatchAt(t, j).ok} IN
  IF starts = {} THEN <<>>
  ELSE <<MatchAt(t, CHOOSE x \in starts : \A y \in starts : x <= y)>>

\* the while loop over headerRegex.exec: leftmost match from lastIndex on, then
\* lastIndex moves to the end of the match
RECURSIVE execAll(_, _)
execAll(t, i) ==
  LET starts == {j \in i..Len(t) : MatchAt(t, j).ok} IN
  IF starts = {} THEN <<>>
  ELSE LET m == MatchAt(t, CHOOSE x \in starts : \A y \in starts : x <= y)
       IN <<m>> \o execAll(t, m.end)

HeaderSource(kw) == <<"from", "to", "cc">>[kw]

RECURSIVE pushResults(_)
pushResults(ms) ==
  IF ms = <<>> THEN <<>>
  ELSE LET name  == trim(Head(ms).name)
           email == trim(Head(ms).email)
       IN (IF includes(email, "@")
             THEN << [email |-> toLowerCase(email), name |-> name,
                      source |-> HeaderSource(Head(ms).headerType)] >>
             ELSE <<>>)
          \o pushResults(Tail(ms))

extractEmailsFromPreview(previewText) ==
  pushResults(execAll(decodedText(previewText), 1))

---------------------------------------------------------------------------
(* The structured-field extractor                                          *)
(*                                                                         *)
(* The extractor reads the text of a decoded member with regular           *)
(* expressions; the text is a sequence of characters.                      *)

\* the table as a bug would make it: reply-to addresses counted as recipients
emailFieldsReplyToAsTo ==
  << [key |-> "OPFMessageCopyFromAddresses",    source |-> "from"],
     [key |-> "OPFMessageCopyToAddresses",      source |-> "to"],
     [key |-> "OPFMessageCopyCCAddresses",      source |-> "cc"],
     [key |-> "OPFMessageCopyBCCAddresses",     source |-> "bcc"],
     [key |-> "OPFMessageCopyReplyToAddresses", source |-> "to"] >>

emailFields ==
  << [key |-> "OPFMessageCopyFromAddresses",    source |-> "from"],
     [key |-> "OPFMessageCopyToAddresses",      source |-> "to"],
     [key |-> "OPFMessageCopyCCAddresses",      source |-> "cc"],
     [key |-> "OPFMessageCopyBCCAddresses",     source |-> "bcc"],
     [key |-> "OPFMessageCopyReplyToAddresses", source |-> "from"] >>

PreviewTag == "OPFMessageCopyPreview"

\* the characters of the names the regular expressions are built from
CharsOf ==
  [OPFMessageCopyFromAddresses |->
     <<"O","P","F","M","e","s","s","a","g","e","C","o","p","y","F","r","o","m","A","d","d","r","e","s","s","e","s">>,
   OPFMessageCopyToAddresses |->
     <<"O","P","F","M","e","s","s","a","g","e","C","o","p","y","T","o","A","d","d","r","e","s","s","e","s">>,
   OPFMessageCopyCCAddresses |->
     <<"O","P","F","M","e","s","s","a","g","e","C","o","p","y","C","C","A","d","d","r","e","s","s","e","s">>,
   OPFMessageCopyBCCAddresses |->
     <<"O","P","F","M","e","s","s","a","g","e","C","o","p","y","B","C","C","A","d","d","r","e","s","s","e","s">>,
   OPFMessageCopyReplyToAddresses |->
     <<"O","P","F","M","e","s","s","a","g","e","C","o","p","y","R","e","p","l","y","T","o","A","d","d","r","e","s","s","e","s">>,
   OPFMessageCopyPreview |->
     <<"O","P","F","M","e","s","s","a","g","e","C","o","p","y","P","r","e","v","i","e","w">>,
   emailAddress |->
     <<"e","m","a","i","l","A","d","d","r","e","s","s">>,
   OPFContactEmailAddressAddress |->
     <<"O","P","F","C","o","n","t","a","c","t","E","m","a","i","l","A","d","d","r","e","s","s","A","d","d","r","e","s","s">>,
   OPFContactEmailAddressName |->
     <<"O","P","F","C","o","n","t","a","c","t","E","m","a","i","l","A","d","d","r","e","s","s","N","a","m","e">>]

\* the class \w
WordChars ==
  {"A","B","C","D","E","F","G","H","I","J","K","L","M","N","O","P","Q","R","S","T",
   "U","V","W","X","Y","Z","a","b","c","d","e","f","g","h","i","j","k","l","m","n",
   "o","p","q","r","s","t","u","v","w","x","y","z","0","1","2","3","4","5","6","7",
   "8","9","_"}

Least(S) == CHOOSE x \in S : \A y \in S : x <= y

\* the characters of name stand at index i of t, whatever their case (the i
\* flag; the names hold ASCII letters only)
NameAt(t, i, name) ==
  /\ i + Len(name) - 1 <= Len(t)
  /\ \A k \in 1..Len(name) :
       \/ t[i + k - 1] = name[k]
       \/ toLowerCaseChar(t[i + k - 1]) = toLowerCaseChar(name[k])

\* <name\b[^>]*> tried at index i of t: the index of the ">" that ends the
\* match, 0 when there is no match at i. \b: the name is not followed by a
\* word character; [^>]*> runs to the first ">"
OpenTagAt(t, i, name) ==
  IF /\ t[i] = "<"
     /\ NameAt(t, i + 1, name)
     /\ i + Len(name) + 1 <= Len(t)
     /\ t[i + Len(name) + 1] \notin WordChars
    THEN FirstGt(t, i + Len(name) + 1)
    ELSE 0

\* the index of the leftmost match of <name\b[^>]*> at or after index i
\* (0: there is none)
firstOpen(t, name, i) ==
  LET S == {s \in i..Len(t) : OpenTagAt(t, s, name) # 0} IN
  IF S = {} THEN 0 ELSE Least(S)

\* the index of the first closing tag </key> at or after index i, whatever
\* the case of its letters (0: there is none)
firstClose(t, key, i) ==
  LET C == {c \in i..(Len(t) - Len(key) - 2) :
              /\ t[c] = "<"
              /\ t[c + 1] = "/"
              /\ NameAt(t, c + 2, key)
              /\ t[c + Len(key) + 2] = ">"} IN
  IF C = {} THEN 0 ELSE Least(C)

\* tag.match(/NAME=(["'])(.*?)\1/i): the leftmost place where the attribute
\* name, "=", a quote, characters other than line terminators and the same
\* quote follow one another; value is what stands between the quotes
attributeMatch(tag, name) ==
  LET n == Len(name)
      valueEnd(p) ==
        LET E == {e \in (p + 1)..Len(tag) : tag[e] = tag[p]} IN
        IF E = {} THEN 0
        ELSE IF \A m \in (p + 1)..(Least(E) - 1) : IsDot(tag[m]) THEN Least(E)
        ELSE 0
      P == {s \in 1..(Len(tag) - n - 2) :
              /\ tag[s + n] = "="
              /\ tag[s + n + 1] \in {"\"", "'"}
              /\ NameAt(tag, s, name)
              /\ valueEnd(s + n + 1) # 0}
  IN IF P = {} THEN [ok |-> FALSE, value |-> <<>>]
     ELSE [ok |-> TRUE,
           value |-> SubSeq(tag, Least(P) + n + 2, valueEnd(Least(P) + n + 1) - 1)]

\* the observations as a bug would make them: the address is not lowercased
RECURSIVE addressCandidatesRawCase(_, _)
addressCandidatesRawCase(containerBody, source) ==
  LET s == firstOpen(containerBody, CharsOf["emailAddress"], 1) IN
  IF s = 0 THEN <<>>
  ELSE LET g          == OpenTagAt(containerBody, s, CharsOf["emailAddress"])
           tag        == SubSeq(containerBody, s, g)
           emailMatch == attributeMatch(tag, CharsOf["OPFContactEmailAddressAddress"])
           nameMatch  == attributeMatch(tag, CharsOf["OPFContactEmailAddressName"])
       IN (IF emailMatch.ok /\ includes(emailMatch.value, "@")
             THEN << [email  |-> decodeXmlEntities(emailMatch.value),
                      name   |-> IF nameMatch.ok THEN decodeXmlEntities(nameMatch.value)
                                                 ELSE <<>>,
                      source |-> source] >>
             ELSE <<>>)
          \o addressCandidatesRawCase(SubSeq(containerBody, g + 1, Len(containerBody)),
                                      source)

\* the inner while loop over addressRegex = /<emailAddress\b[^>]*>/gi: the
\* leftmost tag of the body, then the tags of what follows it; one observation
\* per tag whose address attribute is found and contains "@"
RECURSIVE addressCandidates(_, _)
addressCandidates(containerBody, source) ==
  LET s == firstOpen(containerBody, CharsOf["emailAddress"], 1) IN
  IF s = 0 THEN <<>>
  ELSE LET g          == OpenTagAt(containerBody, s, CharsOf["emailAddress"])
           tag        == SubSeq(containerBody, s, g)
           emailMatch == attributeMatch(tag, CharsOf["OPFContactEmailAddressAddress"])
           nameMatch  == attributeMatch(tag, CharsOf["OPFContactEmailAddressName"])
       IN (IF emailMatch.ok /\ includes(emailMatch.value, "@")
             THEN << [email  |-> toLowerCase(decodeXmlEntities(emailMatch.value)),
                      name   |-> IF nameMatch.ok THEN decodeXmlEntities(nameMatch.value)
                                                 ELSE <<>>,
                      source |-> source] >>
             ELSE <<>>)
          \o addressCandidates(SubSeq(containerBody, g + 1, Len(containerBody)), source)

\* containerRegex.exec from index i of the document on: the leftmost opening
\* tag <key ...> that has a </key> behind it matches together with the first
\* such closing tag, and the body is all the text in between; the next exec
\* starts after that closing tag. When the leftmost opening tag has no closing
\* tag behind it, no later one has.
RECURSIVE containerCandidatesFrom(_, _, _)
containerCandidatesFrom(xmlText, field, i) ==
  LET key == CharsOf[field.key]
      s   == firstOpen(xmlText, key, i) IN
  IF s = 0 THEN <<>>
  ELSE LET g == OpenTagAt(xmlText, s, key)
           c == firstClose(xmlText, key, g + 1) IN
       IF c = 0 THEN <<>>
       ELSE addressCandidates(SubSeq(xmlText, g + 1, c - 1), field.source)
              \o containerCandidatesFrom(xmlText, field, c + Len(key) + 3)

\* the while loop over containerRegex for one key: its matches in document order
containerCandidates(xmlText, field) == containerCandidatesFrom(xmlText, field, 1)

\* the extraction as a bug would make it: the rows of the table are gone
\* through from the last to the first
RECURSIVE structuredCandidatesLastRowFirst(_, _)
structuredCandidatesLastRowFirst(xmlText, k) ==
  IF k > Len(emailFields) THEN <<>>
  ELSE structuredCandidatesLastRowFirst(xmlText, k + 1)
         \o containerCandidates(xmlText, emailFields[k])

\* the for loop over emailFields
RECURSIVE structuredCandidates(_, _)
structuredCandidates(xmlText, k) ==
  IF k > Len(emailFields) THEN <<>>
  ELSE containerCandidates(xmlText, emailFields[k])
         \o structuredCandidates(xmlText, k + 1)

\* the inner for loop of the preview branch: the address is lowercased once more
lowerEmails(cands) ==
  [i \in 1..Len(cands) |-> [cands[i] EXCEPT !.email = toLowerCase(@)]]

\* previewRegex.exec from index i of the document on, as containerRegex with
\* the key OPFMessageCopyPreview; the tags are stripped from the body and the
\* entities decoded, and an empty text is passed over
RECURSIVE previewCandidatesFrom(_, _)
previewCandidatesFrom(xmlText, i) ==
  LET key == CharsOf[PreviewTag]
      s   == firstOpen(xmlText, key, i) IN
  IF s = 0 THEN <<>>
  ELSE LET g == OpenTagAt(xmlText, s, key)
           c == firstClose(xmlText, key, g + 1) IN
       IF c = 0 THEN <<>>
       ELSE LET previewText ==
                  decodeXmlEntities(stripTags(SubSeq(xmlText, g + 1, c - 1))) IN
            (IF previewText = <<>> THEN <<>>
             ELSE lowerEmails(extractEmailsFromPreview(previewText)))
              \o previewCandidatesFrom(xmlText, c + Len(key) + 3)

\* the while loop over previewRegex
previewCandidates(xmlText) == previewCandidatesFrom(xmlText, 1)

(* The members of the archives are given element by element: an element is *)
(* [tag, closed, entries, text], the characters of its tag name, whether   *)
(* its closing tag is there, its <emailAddress> tags as [hasAddr, addr,    *)
(* hasName, name] with the raw attribute values, and the raw text that     *)
(* follows them. The document of a member is the text of its elements.     *)

\* the text of an <emailAddress> tag
entryMarkup(en) ==
  <<"<">> \o CharsOf["emailAddress"]
    \o (IF en.hasAddr
          THEN <<" ">> \o CharsOf["OPFContactEmailAddressAddress"] \o <<"=", "\"">>
                 \o en.addr \o <<"\"">>
          ELSE <<>>)
    \o (IF en.hasName
          THEN <<" ">> \o CharsOf["OPFContactEmailAddressName"] \o <<"=", "\"">>
                 \o en.name \o <<"\"">>
          ELSE <<>>)
    \o <<" ", "/", ">">>

RECURSIVE entriesMarkup(_)
entriesMarkup(entries) ==
  IF entries = <<>> THEN <<>>
  ELSE entryMarkup(Head(entries)) \o entriesMarkup(Tail(entries))

\* what an element holds after its opening tag, closing tag excluded
contentOf(el) == entriesMarkup(el.entries) \o el.text

openTag(el)  == <<"<">> \o el.tag \o <<">">>
closeTag(el) == IF el.closed THEN <<"<", "/">> \o el.tag \o <<">">> ELSE <<>>

\* the xmlContent of a member, as decodeXmlBytes returns it
RECURSIVE documentOf(_)
documentOf(elems) ==
  IF elems = <<>> THEN <<>>
  ELSE openTag(Head(elems)) \o contentOf(Head(elems)) \o closeTag(Head(elems))
         \o documentOf(Tail(elems))

\* the name of the key an element's tag spells, whatever the case of its
\* letters ("other": none)
KeyNames == {emailFields[f].key : f \in 1..Len(emailFields)} \cup {PreviewTag}

NameOf(tag) ==
  IF \E k \in KeyNames : toLowerCase(CharsOf[k]) = toLowerCase(tag)
    THEN CHOOSE k \in KeyNames : toLowerCase(CharsOf[k]) = toLowerCase(tag)
    ELSE "other"

\* the calls as a bug would make them: the preview branch ignores the flag
observationsAlwaysPreview(xmlText, flag) ==
  structuredCandidates(xmlText, 1) \o previewCandidates(xmlText)

\* the calls extractContactsFromXmlText makes to addContact, in order
observations(xmlText, flag) ==
  structuredCandidates(xmlText, 1)
    \o (IF flag THEN previewCandidates(xmlText) ELSE <<>>)

RECURSIVE foldContacts(_, _)
foldContacts(cs, cands) ==
  IF cands = <<>> THEN cs
  ELSE foldContacts(addContact(cs, Head(cands).email, Head(cands).name,
                               Head(cands).source), Tail(cands))

extractContactsFromXmlText(xmlText, cs, flag) ==
  foldContacts(cs, observations(xmlText, flag))

---------------------------------------------------------------------------
(* The output formatters *)

CsvHeader == <<"E","m","a","i","l",",","N","a","m","e",",","S","o","u","r","c","e",",",
               "M","e","s","s","a","g","e"," ","C","o","u","n","t">>

SourceText(src) ==
  CASE src = "from" -> <<"f","r","o","m">>
    [] src = "to"   -> <<"t","o">>
    [] src = "cc"   -> <<"c","c">>
    [] src = "bcc"  -> <<"b","c","c">>

\* escapeCSV as a bug would have it: a field with a comma is left bare
escapeCSVNoComma(str) ==
  IF str = <<>> THEN <<>>
  ELSE IF includes(str, "\"") \/ includes(str, "\n")
    THEN <<"\"">> \o replaceAll(str, <<"\"">>, <<"\"", "\"">>) \o <<"\"">>
    ELSE str

escapeCSV(str) ==
  IF str = <<>> THEN <<>>
  ELSE IF includes(str, ",") \/ includes(str, "\"") \/ includes(str, "\n")
    THEN <<"\"">> \o replaceAll(str, <<"\"">>, <<"\"", "\"">>) \o <<"\"">>
    ELSE str

csvRow(c) ==
  escapeCSV(c.email) \o <<",">> \o escapeCSV(c.name) \o <<",">>
    \o SourceText(c.source) \o <<",">> \o numberToString(c.count)

generateCSV(cs) ==
  join(<<CsvHeader>> \o [i \in 1..Len(cs) |-> csvRow(cs[i])], <<"\n">>)

\* String.prototype.split with a one-character separator
RECURSIVE split(_, _)
split(s, sep) ==
  IF ~includes(s, sep) THEN <<s>>
  ELSE LET i == CHOOSE k \in 1..Len(s) :
                  s[k] = sep /\ \A m \in 1..(k - 1) : s[m] # sep
       IN <<SubSeq(s, 1, i - 1)>> \o split(SubSeq(s, i + 1, Len(s)), sep)

CRLF == <<"\r", "\n">>

VcBegin   == <<"B","E","G","I","N",":","V","C","A","R","D">>
VcVersion == <<"V","E","R","S","I","O","N",":","3",".","0">>
VcEnd     == <<"E","N","D",":","V","C","A","R","D">>
VcFN      == <<"F","N",":">>
VcN       == <<"N",":">>
VcNEmpty  == <<"N",":",";",";",";",";">>
VcEmail   == <<"E","M","A","I","L",";","T","Y","P","E","=","I","N","T","E","R","N","E","T",":">>
VcNote    == <<"N","O","T","E",":","S","o","u","r","c","e",":"," ">>
VcNoteMid == <<",", " ", "M","e","s","s","a","g","e","s",":"," ">>

\* one record of generateVCard as a bug would have it: FN is always the name
vcardRecordFnName(c) ==
  LET parts     == IF c.name # <<>> THEN split(c.name, " ") ELSE <<>>
      lastName  == IF Len(parts) > 1 THEN parts[Len(parts)] ELSE <<>>
      nameParts == IF Len(parts) > 1 THEN SubSeq(parts, 1, Len(parts) - 1) ELSE parts
      firstName == join(nameParts, <<" ">>)
  IN join(<< VcBegin, VcVersion,
             VcFN \o c.name,
             IF c.name # <<>>
               THEN VcN \o lastName \o <<";">> \o firstName \o <<";",";",";">>
               ELSE VcNEmpty,
             VcEmail \o c.email,
             VcNote \o SourceText(c.source) \o VcNoteMid \o numberToString(c.count),
             VcEnd >>, CRLF)

\* the body of the map callback of generateVCard
vcardRecord(c) ==
  LET parts     == IF c.name # <<>> THEN split(c.name, " ") ELSE <<>>
      lastName  == IF Len(parts) > 1 THEN parts[Len(parts)] ELSE <<>>
      nameParts == IF Len(parts) > 1 THEN SubSeq(parts, 1, Len(parts) - 1) ELSE parts
      firstName == join(nameParts, <<" ">>)
  IN join(<< VcBegin, VcVersion,
             IF c.name # <<>> THEN VcFN \o c.name ELSE VcFN \o c.email,
             IF c.name # <<>>
               THEN VcN \o lastName \o <<";">> \o firstName \o <<";",";",";">>
               ELSE VcNEmpty,
             VcEmail \o c.email,
             VcNote \o SourceText(c.source) \o VcNoteMid \o numberToString(c.count),
             VcEnd >>, CRLF)

generateVCard(cs) ==
  join([i \in 1..Len(cs) |-> vcardRecord(cs[i])], CRLF)

\* Array.from(contacts.values()): the Contact objects in insertion order
contactValues(cs) ==
  [i \in 1..Len(cs) |-> [email |-> cs[i].email, name |-> cs[i].name,
                         source |-> cs[i].source, count |-> cs[i].count]]

\* the sort as a bug would have it: equal counts come out in reverse order
insertByCountUnstable(sorted, c) ==
  LET k == Cardinality({i \in 1..Len(sorted) : sorted[i].count > c.count})
  IN SubSeq(sorted, 1, k) \o <<c>> \o SubSeq(sorted, k + 1, Len(sorted))

\* where a stable sort by (a, b) => b.count - a.count puts c among the already
\* sorted elements: behind every element whose count is not smaller
insertByCount(sorted, c) ==
  LET k == Cardinality({i \in 1..Len(sorted) : sorted[i].count >= c.count})
  IN SubSeq(sorted, 1, k) \o <<c>> \o SubSeq(sorted, k + 1, Len(sorted))

RECURSIVE sortFrom(_, _)
sortFrom(sorted, rest) ==
  IF rest = <<>> THEN sorted
  ELSE sortFrom(insertByCount(sorted, Head(rest)), Tail(rest))

\* Array.prototype.sort((a, b) => b.count - a.count), which is stable
sortByCount(cs) == sortFrom(<<>>, cs)

FrequentThreshold == 3
TopN == 10

\* the filter as a bug would have it: the threshold is exclusive
isFrequentStrict(c) == c.count > FrequentThreshold

\* (c) => c.count >= 3
isFrequent(c) == c.count >= FrequentThreshold

\* Array.prototype.filter with isFrequent
RECURSIVE filterFrequent(_)
filterFrequent(cs) ==
  IF cs = <<>> THEN <<>>
  ELSE (IF isFrequent(Head(cs)) THEN <<Head(cs)>> ELSE <<>>) \o filterFrequent(Tail(cs))

\* sortedContacts.slice(0, 10).map(...)
topContactsOf(sorted) ==
  [i \in 1..(IF Len(sorted) < TopN THEN Len(sorted) ELSE TopN) |->
     [email |-> sorted[i].email, name |-> sorted[i].name, count |-> sorted[i].count]]

NoResult ==
  [totalContacts |-> 0, frequentContacts |-> 0, csvData |-> <<>>,
   csvFrequentData |-> <<>>, vcardData |-> <<>>, topContacts |-> <<>>]

\* the payload of the 'complete' message
completeResult(cs) ==
  LET sortedContacts == sortByCount(contactValues(cs)) IN
  [totalContacts    |-> Len(cs),
   frequentContacts |-> Len(filterFrequent(sortedContacts)),
   csvData          |-> generateCSV(sortedContacts),
   csvFrequentData  |-> generateCSV(filterFrequent(sortedContacts)),
   vcardData        |-> generateVCard(sortedContacts),
   topContacts      |-> topContactsOf(sortedContacts)]

---------------------------------------------------------------------------
(* The archives the worker is run on *)

MaxFiles == 3

sToAddr    == <<"T","o","@","E","x","a","m","p","l","e",".","c","o","m">>
sToLower   == <<"t","o","@","e","x","a","m","p","l","e",".","c","o","m">>
sFromAddr  == <<"F","r","o","m","@","E","x","a","m","p","l","e",".","c","o","m">>
sFromLower == <<"f","r","o","m","@","e","x","a","m","p","l","e",".","c","o","m">>
sJaneMixed == <<"J","a","n","e","@","E","x","a","m","p","l","e",".","C","O","M">>
sJaneLower == <<"j","a","n","e","@","e","x","a","m","p","l","e",".","c","o","m">>
sBobAddr   == <<"b","o","b","@","x",".","i","o">>
sNoAt      == <<"u","n","d","i","s","c","l","o","s","e","d">>
sToName    == <<"T","o"," ","N","a","m","e">>
sJaneDoe   == <<"J","a","n","e"," ","D","o","e">>
sJD        == <<"J","."," ","D",".">>
sDoeJr     == <<"D","o","e",","," ","\"","J","r","\"">>
sDoeJrXml  == <<"D","o","e",","," ","&","q","u","o","t",";","J","r","&","q","u","o","t",";">>
sDoeJrCsv  == <<"\"","D","o","e",","," ","\"","\"","J","r","\"","\"","\"">>
sPreviewAddr == <<"p","r","e","v","i","e","w","@","e","x","a","m","p","l","e",".","c","o","m">>
sDestAddr    == <<"d","e","s","t","@","e","x","a","m","p","l","e",".","c","o","m">>
sPreviewName == <<"P","r","e","v","i","e","w"," ","N","a","m","e">>
sDest        == <<"D","e","s","t">>

\* "From: Preview Name &lt;preview@example.com&gt; To: Dest &lt;dest@example.com&gt;"
sPreviewXml ==
  <<"F","r","o","m",":"," ">> \o sPreviewName \o <<" ">> \o EntLt \o sPreviewAddr
    \o EntGt \o <<" ","T","o",":"," ">> \o sDest \o <<" ">> \o EntLt \o sDestAddr \o EntGt

Entry(addr, name)  == [hasAddr |-> TRUE, addr |-> addr, hasName |-> TRUE, name |-> name]
EntryNoName(addr)  == [hasAddr |-> TRUE, addr |-> addr, hasName |-> FALSE, name |-> <<>>]
EntryNoAddr(name)  == [hasAddr |-> FALSE, addr |-> <<>>, hasName |-> TRUE, name |-> name]
Container(key, es) == [tag |-> CharsOf[key], closed |-> TRUE, entries |-> es, text |-> <<>>]
Unclosed(key, es)  == [tag |-> CharsOf[key], closed |-> FALSE, entries |-> es, text |-> <<>>]
Preview(text)      == [tag |-> CharsOf[PreviewTag], closed |-> TRUE, entries |-> <<>>, text |-> text]
Member(elems)      == [readable |-> TRUE, elems |-> elems]

\* the spec's end-to-end member: a To container ahead of a From container
mEndToEnd ==
  Member(<< Container("OPFMessageCopyToAddresses", <<Entry(sToAddr, sToName)>>),
            Container("OPFMessageCopyFromAddresses", <<EntryNoName(sFromAddr)>>) >>)

mJaneFrom ==
  Member(<< Container("OPFMessageCopyFromAddresses", <<EntryNoName(sJaneMixed)>>) >>)

mJaneToCc ==
  Member(<< Container("OPFMessageCopyToAddresses", <<Entry(sJaneLower, sJaneDoe)>>),
            Container("OPFMessageCopyCCAddresses", <<Entry(sJaneLower, sJD)>>) >>)

mPreview ==
  Member(<< Preview(sPreviewXml),
            Container("OPFMessageCopyBCCAddresses",
                      <<Entry(sBobAddr, sDoeJrXml), EntryNoName(sNoAt), EntryNoAddr(sToName)>>),
            Container("OPFMessageCopyReplyToAddresses", <<EntryNoName(sToAddr)>>) >>)

\* a member whose read or decoding throws
mUnreadable == [readable |-> FALSE, elems |-> <<>>]

Members == {mEndToEnd, mJaneFrom, mJaneToCc, mPreview, mUnreadable}

SeqsUpTo(S, n) == UNION {[1..k -> S] : k \in 0..n}

Archives ==
  {[loadable |-> FALSE, members |-> <<>>]}
    \cup {[loadable |-> TRUE, members |-> ms] : ms \in SeqsUpTo(Members, MaxFiles)}

---------------------------------------------------------------------------
(* self.onmessage *)

ProgressEvery == 100

Msg(type, progress, processed, total, found) ==
  [type |-> type, progress |-> progress, processedFiles |-> processed,
   totalFiles |-> total, contactsFound |-> found]

\* the progress value as a bug would make it: the division by the total is
\* left out
progressOfUndivided(processed, total) == processed * 100

\* the quotients processedFiles / totalFiles, in lowest terms, for which
\* (processedFiles / totalFiles) * 100 lies exactly half way between two
\* integers while the product of the two IEEE doubles falls below it
RoundsBelowHalf == {<<23, 40>>, <<29, 200>>, <<57, 200>>, <<113, 200>>}

\* Math.round((processedFiles / totalFiles) * 100): the quotient and the
\* product are doubles; the result is the exact value rounded half up, but one
\* less for the quotients of RoundsBelowHalf
progressOf(processed, total) ==
  LET halfUp == (200 * processed + total) \div (2 * total) IN
  IF \E f \in RoundsBelowHalf : processed * f[2] = total * f[1]
    THEN halfUp - 1
    ELSE halfUp

Init ==
  /\ archive \in Archives
  /\ extractFromPreview \in BOOLEAN
  /\ pc = "start"
  /\ totalFiles = 0
  /\ processedFiles = 0
  /\ parseErrors = 0
  /\ contacts = <<>>
  /\ pending = <<>>
  /\ observed = <<>>
  /\ msgs = <<>>
  /\ result = NoResult
  /\ contactsB = <<>>
  /\ pendingB = <<>>
  /\ previewArg = <<>>
  /\ xmlBytes = <<>>
  /\ xmlContent = <<>>
  /\ runs = <<>>
  /\ app = <<>>
  /\ workers = <<>>
  /\ timers = 0
  /\ alerts = <<>>
  /\ input = <<>>
  /\ tempDir = <<>>
  /\ dirs = {}
  /\ walk = <<>>
  /\ fileCount = 0
  /\ visited = <<>>
  /\ parsed = <<>>

\* file.arrayBuffer() or JSZip.loadAsync throws: the outer catch posts 'error'
LoadFails ==
  /\ pc = "start"
  /\ ~archive.loadable
  /\ msgs' = Append(msgs, Msg("error", 0, 0, 0, 0))
  /\ pc' = "done"
  /\ UNCHANGED <<appVars, cliVars, runs, archive, extractFromPreview, totalFiles, processedFiles, parseErrors,
                 contacts, pending, observed, result, contactsB, pendingB,
                 previewArg, xmlBytes, xmlContent>>

\* the archive holds no .xml member: throw, and the outer catch posts 'error'
NoXmlFiles ==
  /\ pc = "start"
  /\ archive.loadable
  /\ Len(archive.members) = 0
  /\ totalFiles' = 0
  /\ msgs' = Append(msgs, Msg("error", 0, 0, 0, 0))
  /\ pc' = "done"
  /\ UNCHANGED <<appVars, cliVars, runs, archive, extractFromPreview, processedFiles, parseErrors,
                 contacts, pending, observed, result, contactsB, pendingB,
                 previewArg, xmlBytes, xmlContent>>

\* the start of a run as a bug would make it: the ContactMap is created once
\* for the worker, not once per run
StartRunKeepsRegistry ==
  /\ pc = "start"
  /\ archive.loadable
  /\ Len(archive.members) > 0
  /\ totalFiles' = Len(archive.members)
  /\ contacts' = contacts
  /\ processedFiles' = 0
  /\ parseErrors' = 0
  /\ pc' = "loop"
  /\ UNCHANGED <<appVars, cliVars, runs, archive, extractFromPreview, pending, observed, msgs, result,
                 contactsB, pendingB, previewArg, xmlBytes, xmlContent>>

\* the run starts: an empty ContactMap and zeroed counters
StartRun ==
  /\ pc = "start"
  /\ archive.loadable
  /\ Len(archive.members) > 0
  /\ totalFiles' = Len(archive.members)
  /\ contacts' = <<>>
  /\ processedFiles' = 0
  /\ parseErrors' = 0
  /\ pc' = "loop"
  /\ UNCHANGED <<appVars, cliVars, runs, archive, extractFromPreview, pending, observed, msgs, result,
                 contactsB, pendingB,
                 previewArg, xmlBytes, xmlContent>>

\* the iteration as a bug would make it: the exception of one member is not
\* caught in the loop and reaches the outer catch, which ends the run
SkipMemberAborts ==
  /\ pc = "loop"
  /\ processedFiles < totalFiles
  /\ ~archive.members[processedFiles + 1].readable
  /\ msgs' = Append(msgs, Msg("error", 0, 0, 0, 0))
  /\ pc' = "done"
  /\ UNCHANGED <<appVars, cliVars, runs, archive, extractFromPreview, totalFiles, processedFiles, parseErrors,
                 contacts, pending, observed, result, contactsB, pendingB,
                 previewArg, xmlBytes, xmlContent>>

\* one iteration whose try block throws: the member is skipped
SkipMember ==
  /\ pc = "loop"
  /\ processedFiles < totalFiles
  /\ ~archive.members[processedFiles + 1].readable
  /\ parseErrors' = parseErrors + 1
  /\ processedFiles' = processedFiles + 1
  /\ UNCHANGED <<appVars, cliVars, runs, archive, extractFromPreview, pc, totalFiles, contacts, pending,
                 observed, msgs, result, contactsB, pendingB,
                 previewArg, xmlBytes, xmlContent>>

\* one iteration up to the call of extractContactsFromXmlText
BeginMember ==
  /\ pc = "loop"
  /\ processedFiles < totalFiles
  /\ archive.members[processedFiles + 1].readable
  /\ msgs' = IF processedFiles = 0
               THEN Append(msgs, Msg("debug", 0, 0, totalFiles, 0))
               ELSE msgs
  /\ pending' = observations(documentOf(archive.members[processedFiles + 1].elems),
                             extractFromPreview)
  /\ pc' = "extract"
  /\ UNCHANGED <<appVars, cliVars, runs, archive, extractFromPreview, totalFiles, processedFiles, parseErrors,
                 contacts, observed, result, contactsB, pendingB,
                 previewArg, xmlBytes, xmlContent>>

\* one call of addContact inside extractContactsFromXmlText
Observe ==
  /\ pc = "extract"
  /\ pending # <<>>
  /\ contacts' = addContact(contacts, Head(pending).email, Head(pending).name,
                            Head(pending).source)
  /\ observed' = Append(observed, Head(pending))
  /\ pending' = Tail(pending)
  /\ UNCHANGED <<appVars, cliVars, runs, archive, extractFromPreview, pc, totalFiles, processedFiles,
                 parseErrors, msgs, result, contactsB, pendingB,
                 previewArg, xmlBytes, xmlContent>>

\* extractContactsFromXmlText has returned: count the member, post progress
EndMember ==
  /\ pc = "extract"
  /\ pending = <<>>
  /\ processedFiles' = processedFiles + 1
  /\ msgs' = IF processedFiles' % ProgressEvery = 0 \/ processedFiles' = totalFiles
               THEN Append(msgs, Msg("progress", progressOf(processedFiles', totalFiles),
                                     processedFiles', totalFiles, Len(contacts)))
               ELSE msgs
  /\ pc' = "loop"
  /\ UNCHANGED <<appVars, cliVars, runs, archive, extractFromPreview, totalFiles, parseErrors, contacts,
                 pending, observed, result, contactsB, pendingB,
                 previewArg, xmlBytes, xmlContent>>

\* after the loop: sort, format and post 'complete'
Finish ==
  /\ pc = "loop"
  /\ processedFiles = totalFiles
  /\ result' = completeResult(contacts)
  /\ msgs' = Append(msgs, Msg("complete", 0, processedFiles, totalFiles, Len(contacts)))
  /\ pc' = "done"
  /\ UNCHANGED <<appVars, cliVars, runs, archive, extractFromPreview, totalFiles, processedFiles, parseErrors,
                 contacts, pending, observed, contactsB, pendingB,
                 previewArg, xmlBytes, xmlContent>>

Next ==
  \/ LoadFails
  \/ NoXmlFiles
  \/ StartRun
  \/ SkipMember
  \/ BeginMember
  \/ Observe
  \/ EndMember
  \/ Finish

Spec == Init /\ [][Next]_vars

---------------------------------------------------------------------------
(* Vocabulary of the properties *)

Finished == pc = "done" /\ msgs # <<>> /\ msgs[Len(msgs)].type = "complete"

\* no .xml member of the archive is read, decoded and extracted successfully
NoParseableMember ==
  /\ archive.loadable
  /\ \A i \in 1..Len(archive.members) : ~archive.members[i].readable

\* the history restricted to one address
ObservedOf(log, email) == SelectSeq(log, LAMBDA c : c.email = email)

NamesOf(log, email) ==
  LET o == ObservedOf(log, email) IN [i \in 1..Len(o) |-> o[i].name]

RECURSIVE FirstNonEmpty(_)
FirstNonEmpty(names) ==
  IF names = <<>> THEN <<>>
  ELSE IF Head(names) # <<>> THEN Head(names)
  ELSE FirstNonEmpty(Tail(names))

IsContainerTag(tag) == \E f \in 1..Len(emailFields) : emailFields[f].key = tag

\* the raw address attributes that contain "@"
RawOfEntries(es) ==
  {es[k].addr : k \in {x \in 1..Len(es) : es[x].hasAddr /\ includes(es[x].addr, "@")}}

RawOfElems(elems) ==
  UNION {RawOfEntries(elems[e].entries) :
           e \in {x \in 1..Len(elems) : IsContainerTag(NameOf(elems[x].tag))}}

\* the raw addresses of the members the loop has finished with
RawProcessed ==
  UNION {RawOfElems(archive.members[j].elems) :
           j \in {y \in 1..processedFiles : archive.members[y].readable}}

SameIgnoringCase(a, b) ==
  /\ Len(a) = Len(b)
  /\ \A i \in 1..Len(a) : toLowerCaseChar(a[i]) = toLowerCaseChar(b[i])

HasNoUpper(s) == \A i \in 1..Len(s) : ~IsUpper(s[i])

---------------------------------------------------------------------------
(* Properties of the registry, checked on the worker's run *)

\* C1: the registry holds at most one Contact per normalized email: every key
\* equals its Contact's email field and has no upper-case letter, no two entries
\* share a key, and every address found in a processed member, whatever its
\* letter case, is represented by exactly one Contact.
C1_OneContactPerNormalizedEmail ==
  /\ \A i \in 1..Len(contacts) :
       /\ contacts[i].key = contacts[i].email
       /\ HasNoUpper(contacts[i].key)
  /\ \A i, j \in 1..Len(contacts) :
       SameIgnoringCase(contacts[i].key, contacts[j].key) => i = j
  /\ \A a \in RawProcessed : \A d \in {decodeXmlEntities(a)} :
       Cardinality({i \in 1..Len(contacts) : SameIgnoringCase(contacts[i].key, d)}) = 1

\* Jane@Example.COM and jane@example.com have both been observed and are one Contact
C1_Witness ==
  /\ {sJaneMixed, sJaneLower} \subseteq RawProcessed
  /\ Cardinality({i \in 1..Len(contacts) : contacts[i].key = sJaneLower}) = 1
  /\ \E i \in 1..Len(contacts) : contacts[i].key = sJaneLower /\ contacts[i].count = 3

\* C2: for every email of the registry count >= 1 and count is the number of
\* candidates with that email handed to addContact so far; every observed
\* email is in the registry.
C2_CountIsNumberOfObservations ==
  /\ \A i \in 1..Len(contacts) :
       /\ contacts[i].count >= 1
       /\ contacts[i].count = Len(ObservedOf(observed, contacts[i].key))
  /\ \A k \in 1..Len(observed) :
       \E i \in 1..Len(contacts) : contacts[i].key = observed[k].email

\* an address observed three times, once of them from preview text
C2_Witness ==
  /\ \E i \in 1..Len(contacts) : contacts[i].count = 3
  /\ \E i \in 1..Len(contacts) : contacts[i].key = sDestAddr /\ contacts[i].count = 2

\* C3: a Contact's name is the first non-empty name observed for its email, and
\* is empty only if all were empty; names "", "Jane Doe", "J. D." in that order
\* leave the name "Jane Doe" and the count 3.
C3_FirstNonEmptyNameWins ==
  \A i \in 1..Len(contacts) :
    /\ contacts[i].name = FirstNonEmpty(NamesOf(observed, contacts[i].key))
    /\ NamesOf(observed, contacts[i].key) = << <<>>, sJaneDoe, sJD >>
         => contacts[i].name = sJaneDoe /\ contacts[i].count = 3

C3_Witness ==
  \E i \in 1..Len(contacts) :
    /\ NamesOf(observed, contacts[i].key) = << <<>>, sJaneDoe, sJD >>
    /\ contacts[i].name = sJaneDoe
    /\ contacts[i].count = 3

\* C4: a Contact's roleTag is the role of the first observation of its email and
\* its email is the one it was created under, whatever came later.
C4_FirstRoleWins ==
  \A i \in 1..Len(contacts) :
    LET o == ObservedOf(observed, contacts[i].key) IN
    /\ o # <<>>
    /\ contacts[i].source = o[1].source
    /\ contacts[i].email = o[1].email

\* an address first seen as from and seen again as to and as cc
C4_Witness ==
  \E i \in 1..Len(contacts) :
    LET o == ObservedOf(observed, contacts[i].key) IN
    /\ Len(o) = 3
    /\ o[1].source = "from" /\ o[2].source = "to" /\ o[3].source = "cc"
    /\ contacts[i].source = "from"

---------------------------------------------------------------------------
(* Order independence of addContact: the same candidates folded in two     *)
(* orders, from two empty registries. archive holds the two orderings.     *)

MaxCands == 3

OrderEmails  == { <<"a","@","x">>, <<"b","@","x">> }
OrderNames   == { <<>>, <<"J">>, <<"K">> }
OrderSources == {"from", "to"}

OrderCandidates ==
  {[email |-> e, name |-> n, source |-> r] :
     e \in OrderEmails, n \in OrderNames, r \in OrderSources}

Reorderings(cands) ==
  {[i \in 1..Len(cands) |-> cands[p[i]]] : p \in Permutations(1..Len(cands))}

InitOrder ==
  /\ pending \in SeqsUpTo(OrderCandidates, MaxCands)
  /\ pendingB \in Reorderings(pending)
  /\ archive = [a |-> pending, b |-> pendingB]
  /\ extractFromPreview = FALSE
  /\ pc = "fold"
  /\ totalFiles = 0
  /\ processedFiles = 0
  /\ parseErrors = 0
  /\ contacts = <<>>
  /\ contactsB = <<>>
  /\ observed = <<>>
  /\ msgs = <<>>
  /\ result = NoResult
  /\ previewArg = <<>>
  /\ xmlBytes = <<>>
  /\ xmlContent = <<>>
  /\ runs = <<>>
  /\ app = <<>>
  /\ workers = <<>>
  /\ timers = 0
  /\ alerts = <<>>
  /\ input = <<>>
  /\ tempDir = <<>>
  /\ dirs = {}
  /\ walk = <<>>
  /\ fileCount = 0
  /\ visited = <<>>
  /\ parsed = <<>>

\* the next candidate of each ordering is handed to addContact
ObserveBoth ==
  /\ pc = "fold"
  /\ pending # <<>>
  /\ contacts' = addContact(contacts, Head(pending).email, Head(pending).name,
                            Head(pending).source)
  /\ contactsB' = addContact(contactsB, Head(pendingB).email, Head(pendingB).name,
                             Head(pendingB).source)
  /\ pending' = Tail(pending)
  /\ pendingB' = Tail(pendingB)
  /\ observed' = Append(observed, Head(pending))
  /\ UNCHANGED <<appVars, cliVars, runs, archive, extractFromPreview, pc, totalFiles, processedFiles,
                 parseErrors, msgs, result, previewArg, xmlBytes, xmlContent>>

NextOrder == ObserveBoth

SpecOrder == InitOrder /\ [][NextOrder]_vars

KeysOf(cs) == {cs[i].key : i \in 1..Len(cs)}

EntryOf(cs, k) == cs[IndexOfKey(cs, k)]

\* C5: two orderings of the same candidates end with the same set of emails and
\* the same count for every email; the name and roleTag of an email are, in each
\* registry, the first non-empty name and the first role of that ordering, so
\* they differ between the registries only where the orderings' firsts differ.
C5_OrderIndependentCounts ==
  (pending = <<>> /\ pendingB = <<>>) =>
    /\ KeysOf(contacts) = KeysOf(contactsB)
    /\ KeysOf(contacts) = {archive.a[i].email : i \in 1..Len(archive.a)}
    /\ \A k \in KeysOf(contacts) :
         /\ EntryOf(contacts, k).count = EntryOf(contactsB, k).count
         /\ EntryOf(contacts, k).name = FirstNonEmpty(NamesOf(archive.a, k))
         /\ EntryOf(contactsB, k).name = FirstNonEmpty(NamesOf(archive.b, k))
         /\ EntryOf(contacts, k).source = ObservedOf(archive.a, k)[1].source
         /\ EntryOf(contactsB, k).source = ObservedOf(archive.b, k)[1].source
         /\ (/\ FirstNonEmpty(NamesOf(archive.a, k)) = FirstNonEmpty(NamesOf(archive.b, k))
             /\ ObservedOf(archive.a, k)[1].source = ObservedOf(archive.b, k)[1].source)
              => [EntryOf(contacts, k) EXCEPT !.count = 0]
                   = [EntryOf(contactsB, k) EXCEPT !.count = 0]

\* two different orderings, folded to the end, that agree on the counts and
\* disagree on a retained name and on a retained roleTag
C5_Witness ==
  /\ pending = <<>> /\ pendingB = <<>>
  /\ archive.a # archive.b
  /\ Len(contacts) = 2
  /\ \E k \in KeysOf(contacts) :
       /\ EntryOf(contacts, k).count = 2
       /\ EntryOf(contactsB, k).count = 2
       /\ EntryOf(contacts, k).name # EntryOf(contactsB, k).name
       /\ EntryOf(contacts, k).source # EntryOf(contactsB, k).source

---------------------------------------------------------------------------
(* Properties of the worker's output *)

\* the pieces of a text between the occurrences of a separator
LinesOf(text, sep) ==
  LET P == {i \in 1..Len(text) : StartsWithAt(text, i, sep)}
      nth(k) == CHOOSE p \in P : Cardinality({q \in P : q < p}) = k - 1
      from(k) == IF k = 1 THEN 1 ELSE nth(k - 1) + Len(sep)
      upto(k) == IF k = Cardinality(P) + 1 THEN Len(text) ELSE nth(k) - 1
  IN [k \in 1..(Cardinality(P) + 1) |-> SubSeq(text, from(k), upto(k))]

\* the k-th index of a sequence whose element has a count of at least n
NthWithCount(seq, n, k) ==
  CHOOSE i \in 1..Len(seq) :
    /\ seq[i].count >= n
    /\ Cardinality({j \in 1..(i - 1) : seq[j].count >= n}) = k - 1

\* C6: the list the outputs are produced from is ordered by non-increasing count,
\* contacts of equal count keep the order of their insertion into the registry,
\* and the CSV rows and the vCard records both follow that list.
C6_SortedByCountStable ==
  Finished =>
    \A top \in {result.topContacts} :
    \A rows \in {Tail(LinesOf(result.csvData, <<"\n">>))} :
    \A cards \in {LinesOf(result.vcardData, CRLF)} :
      /\ Len(top) = Len(contacts)
      /\ \A i \in 1..(Len(top) - 1) : top[i].count >= top[i + 1].count
      /\ \A i \in 1..Len(top) :
           /\ IndexOfKey(contacts, top[i].email) # 0
           /\ contacts[IndexOfKey(contacts, top[i].email)].count = top[i].count
      /\ \A i, j \in 1..Len(top) :
           (i < j /\ top[i].count = top[j].count)
             => IndexOfKey(contacts, top[i].email) < IndexOfKey(contacts, top[j].email)
      /\ Len(rows) = Len(top)
      /\ \A i \in 1..Len(top) : StartsWithAt(rows[i], 1, top[i].email \o <<",">>)
      /\ IF Len(top) = 0 THEN result.vcardData = <<>>
         ELSE /\ Len(cards) = 7 * Len(top)
              /\ \A i \in 1..Len(top) : cards[7 * (i - 1) + 5] = VcEmail \o top[i].email

\* a finished run whose most frequent contact was not inserted first and which
\* holds two contacts of equal count
C6_Witness ==
  /\ Finished
  /\ Len(contacts) >= 3
  /\ result.topContacts[1].email # contacts[1].email
  /\ result.topContacts[2].count = result.topContacts[3].count
  /\ result.topContacts[1].count > result.topContacts[2].count

\* C10: the frequent-contacts CSV holds the header and exactly the rows of the
\* all-contacts CSV whose contact has a count of at least 3, unchanged and in the
\* same relative order, and frequentContacts is the number of those rows.
C10_FrequentSubset ==
  Finished =>
    \A top \in {result.topContacts} :
    \A all \in {Tail(LinesOf(result.csvData, <<"\n">>))} :
    \A freq \in {LinesOf(result.csvFrequentData, <<"\n">>)} :
      /\ Len(all) = Len(top)
      /\ Head(freq) = CsvHeader
      /\ Len(freq) - 1 = Cardinality({i \in 1..Len(top) : top[i].count >= 3})
      /\ \A k \in 1..(Len(freq) - 1) : freq[k + 1] = all[NthWithCount(top, 3, k)]
      /\ \A j \in 1..Len(contacts) :
           (contacts[j].count >= 3)
             <=> \E k \in 2..Len(freq) : StartsWithAt(freq[k], 1, contacts[j].email \o <<",">>)
      /\ result.frequentContacts = Len(freq) - 1

\* a finished run with a contact of count exactly 3 and contacts below 3
C10_Witness ==
  /\ Finished
  /\ result.frequentContacts = 1
  /\ result.totalContacts >= 3
  /\ \E j \in 1..Len(contacts) : contacts[j].count = 3
  /\ \E j \in 1..Len(contacts) : contacts[j].count = 2

\* the data rows of a CSV text, as a set
DataRows(csv) ==
  LET rows == Tail(LinesOf(csv, <<"\n">>)) IN {rows[i] : i \in 1..Len(rows)}

\* C11 as stated: in every completed run each row of the frequent CSV is a row
\* of the all-contacts CSV, and the all-contacts CSV has at least one data row
\* that the frequent CSV lacks (a strict subset). Stated for the runs in which
\* at least one member is processed successfully.
C11_FrequentStrictSubset ==
  (Finished /\ ~NoParseableMember) =>
    \A all \in {DataRows(result.csvData)} :
    \A freq \in {DataRows(result.csvFrequentData)} :
      /\ freq \subseteq all
      /\ all \ freq # {}

\* C11 as amended: in every completed run each row of the frequent CSV is a row
\* of the all-contacts CSV; the all-contacts CSV has a data row the frequent
\* CSV lacks exactly when some contact has a count below 3, so the two are
\* equal when every contact (or none at all) reached the threshold.
C11_FrequentSubsetOfAll ==
  Finished =>
    \A all \in {DataRows(result.csvData)} :
    \A freq \in {DataRows(result.csvFrequentData)} :
      /\ freq \subseteq all
      /\ Cardinality(all) = Len(contacts)
      /\ (all \ freq # {}) <=> (\E j \in 1..Len(contacts) : contacts[j].count < 3)

\* a completed run whose every contact reached the threshold: both CSVs hold
\* the same, non-empty set of rows
C11_Witness ==
  /\ Finished
  /\ Len(contacts) >= 1
  /\ \A j \in 1..Len(contacts) : contacts[j].count >= 3
  /\ DataRows(result.csvFrequentData) = DataRows(result.csvData)
  /\ DataRows(result.csvData) # {}

---------------------------------------------------------------------------
(* Properties of the extractors, checked on the worker's run *)

\* the structured observations of the readable members among the first n
RECURSIVE StructuredUpTo(_)
StructuredUpTo(n) ==
  IF n = 0 THEN <<>>
  ELSE StructuredUpTo(n - 1)
         \o (IF archive.members[n].readable
               THEN structuredCandidates(documentOf(archive.members[n].elems), 1)
               ELSE <<>>)

\* the structured observations of each readable member followed by its
\* preview matches
RECURSIVE StructuredThenPreviewUpTo(_)
StructuredThenPreviewUpTo(n) ==
  IF n = 0 THEN <<>>
  ELSE StructuredThenPreviewUpTo(n - 1)
         \o (IF archive.members[n].readable
               THEN structuredCandidates(documentOf(archive.members[n].elems), 1)
                      \o previewCandidates(documentOf(archive.members[n].elems))
               ELSE <<>>)

\* C15: with the flag false the preview elements contribute no observation: the
\* observations and the registry are those of the structured containers alone,
\* and every contact's key is an address attribute of a container. With the
\* flag true each member's structured observations are the same and come
\* first, and its preview matches follow them.
C15_PreviewOnlyOnRequest ==
  Finished =>
    \A structured \in {StructuredUpTo(processedFiles)} :
      /\ ~extractFromPreview =>
           /\ observed = structured
           /\ contacts = foldContacts(<<>>, structured)
           /\ \A i \in 1..Len(contacts) :
                \E a \in RawProcessed :
                  SameIgnoringCase(contacts[i].key, decodeXmlEntities(a))
      /\ extractFromPreview =>
           /\ observed = StructuredThenPreviewUpTo(processedFiles)
           /\ \A i \in 1..Len(structured) :
                /\ IndexOfKey(contacts, structured[i].email) # 0
                /\ contacts[IndexOfKey(contacts, structured[i].email)].count
                     >= Len(ObservedOf(structured, structured[i].email))

\* the member with a preview element has been processed with the flag false:
\* the registry holds its container addresses and not the preview's address
C15_Witness ==
  /\ ~extractFromPreview
  /\ Finished
  /\ archive.members[1] = mPreview
  /\ IndexOfKey(contacts, sBobAddr) # 0
  /\ IndexOfKey(contacts, sPreviewAddr) = 0

---------------------------------------------------------------------------
(* Properties of the messages the worker posts *)

TypesOf(ms, type) == {k \in 1..Len(ms) : ms[k].type = type}

\* C12: when the archive has no parseable .xml member (the list of .xml members
\* is empty, or no member is processed successfully) the run never posts
\* 'complete', and it ends with exactly one 'error' message and no output.
C12_NoParseableMemberIsError ==
  NoParseableMember =>
    /\ TypesOf(msgs, "complete") = {}
    /\ pc = "done" =>
         /\ Cardinality(TypesOf(msgs, "error")) = 1
         /\ msgs[Len(msgs)].type = "error"
         /\ result = NoResult

\* the observations of the readable members among the first n, in order
RECURSIVE ObservationsUpTo(_)
ObservationsUpTo(n) ==
  IF n = 0 THEN <<>>
  ELSE ObservationsUpTo(n - 1)
         \o (IF archive.members[n].readable
               THEN observations(documentOf(archive.members[n].elems), extractFromPreview)
               ELSE <<>>)

\* C13: a member that throws is skipped: it adds one to parseErrors, counts as
\* processed and contributes no observation, every other member is still
\* processed, and the run of a non-empty archive ends with 'complete' and
\* posts no 'error'.
C13_FailedMemberIsSkipped ==
  (archive.loadable /\ Len(archive.members) > 0 /\ pc \in {"loop", "done"}) =>
    /\ parseErrors =
         Cardinality({i \in 1..processedFiles : ~archive.members[i].readable})
    /\ pc = "done" =>
         /\ processedFiles = Len(archive.members)
         /\ observed = ObservationsUpTo(Len(archive.members))
         /\ msgs[Len(msgs)].type = "complete"
         /\ TypesOf(msgs, "error") = {}

\* a completed run whose second of three members threw and whose third member
\* was processed after it
C13_Witness ==
  /\ Finished
  /\ Len(archive.members) = 3
  /\ archive.members[1] = mJaneFrom
  /\ archive.members[2] = mUnreadable
  /\ archive.members[3] = mEndToEnd
  /\ parseErrors = 1
  /\ processedFiles = 3
  /\ \E k \in 1..Len(observed) : observed[k].email = sToLower

\* C14: in a run over N >= 1 members a 'progress' message has been posted for
\* every multiple of 100 the processed count has reached, and a 'progress'
\* message with processedFiles = totalFiles and progress 100 precedes the
\* 'complete' message, also when some members (the last one, the 100th) failed.
\* Stated for the runs in which at least one member is processed successfully;
\* the runs in which none is are the subject of C12.
C14_ProgressCadence ==
  ~NoParseableMember =>
  /\ \A k \in 1..processedFiles :
       (pc \in {"loop", "done"} /\ k % ProgressEvery = 0)
         => \E m \in TypesOf(msgs, "progress") : msgs[m].processedFiles = k
  /\ Finished =>
       \E m \in TypesOf(msgs, "progress") :
         /\ m < Len(msgs)
         /\ msgs[m].processedFiles = totalFiles
         /\ msgs[m].totalFiles = totalFiles
         /\ msgs[m].progress = 100

---------------------------------------------------------------------------
(* The formatters on arbitrary contact lists: contacts holds the argument  *)
(* of generateCSV and generateVCard, result their return values.           *)

MaxNameLen == 3

FormatChars == {"a", "b", " ", "\t", ",", "\"", "\n"}

FormatNames == SeqsUpTo(FormatChars, MaxNameLen) \cup {sJaneDoe, sDoeJr}

FormatEmails == { sBobAddr, <<"a",",","b","@","x">> }

FormatContacts ==
  {[email |-> e, name |-> n, source |-> "to", count |-> k] :
     e \in FormatEmails, n \in FormatNames, k \in {1, 12}}

cJane == [email |-> sJaneLower, name |-> sJaneDoe, source |-> "bcc", count |-> 3]

InitFormat ==
  /\ contacts \in {<<c>> : c \in FormatContacts} \cup {<<c, cJane>> : c \in FormatContacts}
  /\ archive = [loadable |-> FALSE, members |-> <<>>]
  /\ extractFromPreview = FALSE
  /\ pc = "format"
  /\ totalFiles = 0
  /\ processedFiles = 0
  /\ parseErrors = 0
  /\ pending = <<>>
  /\ observed = <<>>
  /\ msgs = <<>>
  /\ result = NoResult
  /\ contactsB = <<>>
  /\ pendingB = <<>>
  /\ previewArg = <<>>
  /\ xmlBytes = <<>>
  /\ xmlContent = <<>>
  /\ runs = <<>>
  /\ app = <<>>
  /\ workers = <<>>
  /\ timers = 0
  /\ alerts = <<>>
  /\ input = <<>>
  /\ tempDir = <<>>
  /\ dirs = {}
  /\ walk = <<>>
  /\ fileCount = 0
  /\ visited = <<>>
  /\ parsed = <<>>

\* generateCSV(contacts) and generateVCard(contacts)
Format ==
  /\ pc = "format"
  /\ result' = [NoResult EXCEPT !.csvData = generateCSV(contacts),
                                !.vcardData = generateVCard(contacts)]
  /\ pc' = "formatted"
  /\ UNCHANGED <<appVars, cliVars, runs, archive, extractFromPreview, totalFiles, processedFiles, parseErrors,
                 contacts, pending, observed, msgs, contactsB, pendingB,
                 previewArg, xmlBytes, xmlContent>>

NextFormat == Format

SpecFormat == InitFormat /\ [][NextFormat]_vars

NeedsQuotes(f) == \E i \in 1..Len(f) : f[i] \in {",", "\"", "\n"}

\* a field between double quotes, each of its double quotes written twice
Quoted(f) ==
  <<"\"">> \o flatten([i \in 1..Len(f) |-> IF f[i] = "\"" THEN <<"\"", "\"">> ELSE <<f[i]>>],
                      1, Len(f)) \o <<"\"">>

FieldText(f) == IF NeedsQuotes(f) THEN Quoted(f) ELSE f

RowText(c) ==
  FieldText(c.email) \o <<",">> \o FieldText(c.name) \o <<",">>
    \o SourceText(c.source) \o <<",">> \o numberToString(c.count)

\* C7: generateCSV returns the header row and then one row per contact, the rows
\* separated by a newline; the email and the name are quoted, inner quotes
\* doubled, if and only if they contain a comma, a double quote or a newline; an
\* empty name is an empty field; the name Doe, "Jr" is written "Doe, ""Jr""".
C7_CsvQuoting ==
  pc = "formatted" =>
    /\ result.csvData =
         CsvHeader \o flatten([i \in 1..Len(contacts) |-> <<"\n">> \o RowText(contacts[i])],
                              1, Len(contacts))
    /\ \A i \in 1..Len(contacts) :
         /\ contacts[i].name = <<>> => FieldText(contacts[i].name) = <<>>
         /\ contacts[i].name = sDoeJr =>
              StartsWithAt(result.csvData, Len(CsvHeader) + 2,
                           FieldText(contacts[1].email) \o <<",">> \o sDoeJrCsv \o <<",">>)

\* the list of the repository's test, with a second contact behind it
C7_Witness ==
  /\ pc = "formatted"
  /\ Len(contacts) = 2
  /\ contacts[1].name = sDoeJr
  /\ contacts[1].email = <<"a",",","b","@","x">>

\* C9: every vCard record has FN equal to the name, or to the email when the name
\* is empty; an empty name gives N:;;;; and "Jane Doe" gives N:Doe;Jane;;;; the
\* record carries the email in EMAIL;TYPE=INTERNET and roleTag and count in NOTE.
C9_VCardRecord ==
  pc = "formatted" =>
    \A cards \in {LinesOf(result.vcardData, CRLF)} :
      /\ Len(cards) = 7 * Len(contacts)
      /\ \A i \in 1..Len(contacts) :
           LET c == contacts[i]
               b == 7 * (i - 1)
           IN /\ cards[b + 1] = VcBegin
              /\ cards[b + 2] = VcVersion
              /\ cards[b + 3] = VcFN \o (IF c.name # <<>> THEN c.name ELSE c.email)
              /\ c.name = <<>> => cards[b + 4] = <<"N",":",";",";",";",";">>
              /\ c.name = sJaneDoe =>
                   cards[b + 4] = <<"N",":","D","o","e",";","J","a","n","e",";",";",";">>
              /\ cards[b + 5] = VcEmail \o c.email
              /\ cards[b + 6] = VcNote \o SourceText(c.source) \o VcNoteMid
                                  \o numberToString(c.count)
              /\ cards[b + 7] = VcEnd

\* a contact without a name followed by Jane Doe
C9_Witness ==
  /\ pc = "formatted"
  /\ Len(contacts) = 2
  /\ contacts[1].name = <<>>
  /\ contacts[2].name = sJaneDoe

\* the non-empty maximal runs of characters other than white space
Tokens(name) ==
  LET starts == {i \in 1..Len(name) :
                   ~IsSpace(name[i]) /\ (i = 1 \/ IsSpace(name[i - 1]))}
      nth(k) == CHOOSE p \in starts : Cardinality({q \in starts : q < p}) = k - 1
      stop(p) == CHOOSE j \in p..Len(name) :
                   /\ j = Len(name) \/ IsSpace(name[j + 1])
                   /\ \A m \in p..j : ~IsSpace(name[m])
  IN [k \in 1..Cardinality(starts) |-> SubSeq(name, nth(k), stop(nth(k)))]

\* C8: for every contact with a non-empty name, whatever white space it holds,
\* the N field is built from the name's white-space separated tokens: the last
\* token is the family name and the tokens before it, joined by single spaces,
\* the given name; a single token is the given name, the family name empty.
C8_NameSplitOnWhitespace ==
  pc = "formatted" =>
    \A cards \in {LinesOf(result.vcardData, CRLF)} :
      \A i \in 1..Len(contacts) :
        \A toks \in {Tokens(contacts[i].name)} :
          /\ Len(toks) >= 2 =>
               cards[7 * (i - 1) + 4] =
                 VcN \o toks[Len(toks)] \o <<";">>
                     \o join(SubSeq(toks, 1, Len(toks) - 1), <<" ">>) \o <<";",";",";">>
          /\ Len(toks) = 1 =>
               cards[7 * (i - 1) + 4] = VcN \o <<";">> \o toks[1] \o <<";",";",";">>

---------------------------------------------------------------------------
(* The structured extractor on one member of arbitrary shape: well-formed  *)
(* containers, containers without a closing tag, entries without the       *)
(* address attribute or without "@", and no container at all.              *)

MaxElems == 3

sAnnAddr == <<"A","n","n","@","x">>
sAnn     == <<"A","n","n">>
sCyAddr  == <<"c","y","@","x">>
sDeeAddr == <<"d","e","e","@","x">>

eToAnn    == Container("OPFMessageCopyToAddresses", <<Entry(sAnnAddr, sAnn)>>)
eToOpen   == Unclosed("OPFMessageCopyToAddresses", <<EntryNoName(sCyAddr)>>)
eFromBob  == Container("OPFMessageCopyFromAddresses", <<EntryNoName(sBobAddr)>>)
eFromOpen == Unclosed("OPFMessageCopyFromAddresses", <<Entry(sDeeAddr, sAnn)>>)
eCcBad    == Container("OPFMessageCopyCCAddresses", <<EntryNoName(sNoAt), EntryNoAddr(sAnn)>>)

\* a container whose tag is written in small letters
eBccLower == [Container("OPFMessageCopyBCCAddresses", <<Entry(sDeeAddr, sAnn)>>)
                EXCEPT !.tag = toLowerCase(@)]

ExtractElems == {eToAnn, eToOpen, eFromBob, eFromOpen, eCcBad, eBccLower}

InitExtract ==
  /\ archive \in {[loadable |-> TRUE, members |-> <<Member(es)>>] :
                    es \in SeqsUpTo(ExtractElems, MaxElems)}
  /\ extractFromPreview = FALSE
  /\ pc = "start"
  /\ totalFiles = 0
  /\ processedFiles = 0
  /\ parseErrors = 0
  /\ contacts = <<>>
  /\ pending = <<>>
  /\ observed = <<>>
  /\ msgs = <<>>
  /\ result = NoResult
  /\ contactsB = <<>>
  /\ pendingB = <<>>
  /\ previewArg = <<>>
  /\ xmlBytes = <<>>
  /\ xmlContent = <<>>
  /\ runs = <<>>
  /\ app = <<>>
  /\ workers = <<>>
  /\ timers = 0
  /\ alerts = <<>>
  /\ input = <<>>
  /\ tempDir = <<>>
  /\ dirs = {}
  /\ walk = <<>>
  /\ fileCount = 0
  /\ visited = <<>>
  /\ parsed = <<>>

NextExtract ==
  \/ StartRun
  \/ BeginMember
  \/ Observe
  \/ EndMember

SpecExtract == InitExtract /\ [][NextExtract]_vars

\* the role the specification gives to a container
RoleOfTag(tag) ==
  CASE tag = "OPFMessageCopyFromAddresses"    -> "from"
    [] tag = "OPFMessageCopyToAddresses"      -> "to"
    [] tag = "OPFMessageCopyCCAddresses"      -> "cc"
    [] tag = "OPFMessageCopyBCCAddresses"     -> "bcc"
    [] tag = "OPFMessageCopyReplyToAddresses" -> "from"

\* an entry is accepted: its address attribute is present and contains "@"
Accepted(en) == en.hasAddr /\ includes(en.addr, "@")

\* the candidate an accepted entry of a container stands for
CandidateOf(en, tag) ==
  [email  |-> toLowerCase(decodeXmlEntities(en.addr)),
   name   |-> IF en.hasName THEN decodeXmlEntities(en.name) ELSE <<>>,
   source |-> RoleOfTag(tag)]

\* the accepted entries of the well-formed (closed) recognized containers of a
\* member that stand for a candidate, as (element, entry) positions
WellFormedSites(elems, cand) ==
  UNION {{<<e, k>> : k \in {x \in 1..Len(elems[e].entries) :
                              /\ Accepted(elems[e].entries[x])
                              /\ CandidateOf(elems[e].entries[x], NameOf(elems[e].tag)) = cand}} :
           e \in {y \in 1..Len(elems) : IsContainerTag(NameOf(elems[y].tag)) /\ elems[y].closed}}

TimesObserved(cand) == Cardinality({i \in 1..Len(observed) : observed[i] = cand})

\* C16: the structured extractor emits a candidate for an entry only if its
\* address attribute is present and contains "@"; an entry without it, a
\* container that is malformed or has no closing tag, and a member without
\* containers yield no candidate and leave the registry alone, and the
\* extraction never throws: what has been observed after the member is exactly
\* one candidate per accepted entry of each well-formed container.
C16_OnlyWellFormedAcceptedEntries ==
  (pc = "loop" /\ processedFiles = 1) =>
    \A elems \in {archive.members[1].elems} :
      /\ parseErrors = 0
      /\ \A i \in 1..Len(observed) : WellFormedSites(elems, observed[i]) # {}
      /\ \A i \in 1..Len(observed) :
           TimesObserved(observed[i]) = Cardinality(WellFormedSites(elems, observed[i]))
      /\ \A e \in 1..Len(elems) : \A k \in 1..Len(elems[e].entries) :
           (IsContainerTag(NameOf(elems[e].tag)) /\ elems[e].closed /\ Accepted(elems[e].entries[k]))
             => TimesObserved(CandidateOf(elems[e].entries[k], NameOf(elems[e].tag))) >= 1
      /\ Len(contacts) = Cardinality({observed[i].email : i \in 1..Len(observed)})

---------------------------------------------------------------------------
(* The roles of the structured observations, checked on the worker's run *)

\* the candidates the accepted entries of the well-formed recognized
\* containers of a member stand for, in document order
RECURSIVE EntryCandidates(_, _)
EntryCandidates(entries, tag) ==
  IF entries = <<>> THEN <<>>
  ELSE (IF Accepted(Head(entries)) THEN <<CandidateOf(Head(entries), tag)>> ELSE <<>>)
       \o EntryCandidates(Tail(entries), tag)

RECURSIVE MemberCandidates(_)
MemberCandidates(elems) ==
  IF elems = <<>> THEN <<>>
  ELSE (IF IsContainerTag(NameOf(Head(elems).tag)) /\ Head(elems).closed
          THEN EntryCandidates(Head(elems).entries, NameOf(Head(elems).tag))
          ELSE <<>>)
       \o MemberCandidates(Tail(elems))

\* those of the readable members among the first n
RECURSIVE RunCandidates(_)
RunCandidates(n) ==
  IF n = 0 THEN <<>>
  ELSE RunCandidates(n - 1)
         \o (IF archive.members[n].readable
               THEN MemberCandidates(archive.members[n].elems)
               ELSE <<>>)

TimesIn(seq, x) == Cardinality({i \in 1..Len(seq) : seq[i] = x})

\* C17: every accepted entry of a well-formed container is observed with the
\* role of its container (from -> from, to -> to, cc -> cc, bcc -> bcc,
\* reply-to -> from), the email lowercased and the name the display-name
\* attribute or empty; without the preview extractor nothing else is observed.
\* The member with a to-entry (To@Example.com, "To Name") and a from-entry
\* (From@Example.com, no name) yields exactly 2 contacts, and the contact of
\* the first-named entry, to@example.com, has name "To Name", role to, count 1.
C17_RoleOfContainer ==
  Finished =>
    \A expected \in {RunCandidates(processedFiles)} :
      /\ \A i \in 1..Len(expected) :
           /\ HasNoUpper(expected[i].email)
           /\ TimesIn(observed, expected[i]) >= TimesIn(expected, expected[i])
      /\ ~extractFromPreview =>
           /\ Len(observed) = Len(expected)
           /\ \A i \in 1..Len(expected) :
                TimesIn(observed, expected[i]) = TimesIn(expected, expected[i])
      /\ archive.members = <<mEndToEnd>> =>
           /\ Len(contacts) = 2
           /\ result.totalContacts = 2
           /\ \E i \in 1..2 :
                /\ contacts[i].email = sToLower
                /\ contacts[i].name = sToName
                /\ contacts[i].source = "to"
                /\ contacts[i].count = 1
           /\ \E i \in 1..2 :
                /\ contacts[i].email = sFromLower
                /\ contacts[i].name = <<>>
                /\ contacts[i].source = "from"
                /\ contacts[i].count = 1

\* the run on the end-to-end member is complete and has observed the to-entry
C17_Witness ==
  /\ Finished
  /\ archive.members = <<mEndToEnd>>
  /\ Len(contacts) = 2
  /\ \E i \in 1..Len(observed) : observed[i].email = sToLower /\ observed[i].source = "to"

---------------------------------------------------------------------------
(* The preview extractor on arbitrary texts: previewArg holds the argument *)
(* of extractEmailsFromPreview, pending its results, which are then handed *)
(* to addContact one by one.                                               *)

MaxTokens == 4

tFrom     == <<"F","r","o","m",":">>
\* the name between a form feed and a no-break space, a capital of Latin-1
\* in the address
tName     == <<"\f","A","l",NoBreakSpace>>
tAddr     == <<"<","É","@","x",">">>
tNoAt     == <<"<","n","o",">">>
tCcWhole  == <<"c","C",":","z","<","d","@","y",">">>
tNewline  == <<"\n">>

PreviewTokens == {tFrom, tName, tAddr, tNoAt, tCcWhole, tNewline}

\* "From: Preview Name <preview@example.com> To: Dest <dest@example.com>"
sPreviewPlain ==
  <<"F","r","o","m",":"," ">> \o sPreviewName \o <<" ","<">> \o sPreviewAddr
    \o <<">"," ","T","o",":"," ">> \o sDest \o <<" ","<">> \o sDestAddr \o <<">">>

PreviewTexts ==
  {flatten(ts, 1, Len(ts)) : ts \in SeqsUpTo(PreviewTokens, MaxTokens)}
    \cup {sPreviewPlain}

InitPreview ==
  /\ previewArg \in PreviewTexts
  /\ archive = [loadable |-> FALSE, members |-> <<>>]
  /\ extractFromPreview = TRUE
  /\ pc = "preview"
  /\ totalFiles = 0
  /\ processedFiles = 0
  /\ parseErrors = 0
  /\ contacts = <<>>
  /\ pending = <<>>
  /\ observed = <<>>
  /\ msgs = <<>>
  /\ result = NoResult
  /\ contactsB = <<>>
  /\ pendingB = <<>>
  /\ xmlBytes = <<>>
  /\ xmlContent = <<>>
  /\ runs = <<>>
  /\ app = <<>>
  /\ workers = <<>>
  /\ timers = 0
  /\ alerts = <<>>
  /\ input = <<>>
  /\ tempDir = <<>>
  /\ dirs = {}
  /\ walk = <<>>
  /\ fileCount = 0
  /\ visited = <<>>
  /\ parsed = <<>>

\* extractEmailsFromPreview(previewText) and the lowercasing of the loop over
\* its results
PreviewMatches ==
  /\ pc = "preview"
  /\ pending' = lowerEmails(extractEmailsFromPreview(previewArg))
  /\ pc' = "extract"
  /\ UNCHANGED <<appVars, cliVars, runs, archive, extractFromPreview, totalFiles, processedFiles, parseErrors,
                 contacts, observed, msgs, result, contactsB, pendingB,
                 previewArg, xmlBytes, xmlContent>>

NextPreview ==
  \/ PreviewMatches
  \/ Observe

SpecPreview == InitPreview /\ [][NextPreview]_vars

KeywordText(src) ==
  CASE src = "from" -> <<"f","r","o","m">>
    [] src = "to"   -> <<"t","o">>
    [] src = "cc"   -> <<"c","c">>

\* the keyword of a role, in any letter case, stands at i and ":" follows it
HeaderAt(t, i, src) ==
  LET c == i + Len(KeywordText(src)) IN
  /\ c <= Len(t)
  /\ t[c] = ":"
  /\ SameIgnoringCase(SubSeq(t, i, c - 1), KeywordText(src))

\* "<", one or more characters other than ">", ">" stands at q
BracketAt(t, q) ==
  /\ t[q] = "<"
  /\ \E r \in (q + 2)..Len(t) : t[r] = ">" /\ \A m \in (q + 1)..(r - 1) : t[m] # ">"

BracketText(t, q) ==
  SubSeq(t, q + 1,
         (CHOOSE r \in (q + 2)..Len(t) :
            t[r] = ">" /\ \A m \in (q + 1)..(r - 1) : t[m] # ">") - 1)

\* the candidate is what an occurrence ending with the bracket at q stands for:
\* a keyword of its role and ":" before q, a non-empty name portion in between
\* whose trimmed text is its name, and the bracketed text, containing "@",
\* trimmed and lowercased, its email
Justifies(t, cand, q) ==
  /\ BracketAt(t, q)
  /\ includes(BracketText(t, q), "@")
  /\ cand.email = toLowerCase(trim(BracketText(t, q)))
  /\ \A k \in 1..Len(cand.name) : IsDot(cand.name[k])
  /\ \E i \in 1..(q - 1) :
       /\ HeaderAt(t, i, cand.source)
       /\ i + Len(KeywordText(cand.source)) + 1 <= q - 1
       /\ trim(SubSeq(t, i + Len(KeywordText(cand.source)) + 1, q - 1)) = cand.name

\* the candidates from the n-th on stand for occurrences that end with
\* brackets at increasing positions after last
RECURSIVE JustifiedFrom(_, _, _, _)
JustifiedFrom(t, res, n, last) ==
  IF n > Len(res) THEN TRUE
  ELSE LET Q == {q \in (last + 1)..Len(t) : Justifies(t, res[n], q)} IN
       /\ Q # {}
       /\ JustifiedFrom(t, res, n + 1, CHOOSE q \in Q : \A x \in Q : q <= x)

\* an occurrence of the plain shape ends with the bracket at q: keyword, ":",
\* a name without brackets or line breaks that is not blank, the bracket
PlainOccurrenceAt(t, q) ==
  /\ BracketAt(t, q)
  /\ \E src \in {"from", "to", "cc"} : \E i \in 1..(q - 1) :
       /\ HeaderAt(t, i, src)
       /\ \A m \in (i + Len(KeywordText(src)) + 1)..(q - 1) :
            t[m] \notin {"<", ">", "\n", "\r"}
       /\ trim(SubSeq(t, i + Len(KeywordText(src)) + 1, q - 1)) # <<>>

\* C18: the preview extractor emits one candidate per occurrence it finds of a
\* keyword From/To/Cc (any letter case), ":", a name portion and an address in
\* angle brackets containing "@": the candidates stand, in order, for
\* occurrences ending with distinct brackets, with the role of the keyword, the
\* bracketed text lowercased and the name trimmed; a bracket without "@" gives
\* no candidate; every occurrence of the plain shape, anywhere in the text, has
\* its address among the candidates. The text "From: Preview Name
\* <preview@example.com> To: Dest <dest@example.com>" yields two contacts with
\* the roles from and to.
C18_PreviewOccurrences ==
  /\ (pc = "extract" /\ observed = <<>>) =>
       \A t \in {previewArg} : \A res \in {pending} :
         /\ JustifiedFrom(t, res, 1, 0)
         /\ \A n \in 1..Len(res) : includes(res[n].email, "@") /\ HasNoUpper(res[n].email)
         /\ \A q \in 1..Len(t) :
              (PlainOccurrenceAt(t, q) /\ includes(BracketText(t, q), "@"))
                => \E n \in 1..Len(res) : res[n].email = toLowerCase(trim(BracketText(t, q)))
  /\ (pc = "extract" /\ pending = <<>> /\ previewArg = sPreviewPlain) =>
       /\ Len(contacts) = 2
       /\ contacts[1].email = sPreviewAddr /\ contacts[1].source = "from"
       /\ contacts[1].name = sPreviewName
       /\ contacts[2].email = sDestAddr /\ contacts[2].source = "to"
       /\ contacts[2].name = sDest

\* the example text has been matched and both of its candidates observed
C18_Witness ==
  /\ pc = "extract"
  /\ pending = <<>>
  /\ previewArg = sPreviewPlain
  /\ Len(observed) = 2
  /\ Len(contacts) = 2

---------------------------------------------------------------------------
(* decodeXmlBytes: xmlBytes holds the bytes of a member, xmlContent the    *)
(* text decoded from them, as the sequence of its UTF-16 code units.       *)

\* the UTF-8 decoder of TextDecoder, in replacement mode: code points
RECURSIVE utf8Decode(_, _, _, _, _, _, _)
utf8Decode(bytes, i, cp, seen, needed, lower, upper) ==
  IF i > Len(bytes) THEN (IF needed # 0 THEN <<65533>> ELSE <<>>)
  ELSE LET b == bytes[i] IN
    IF needed = 0 THEN
      IF b <= 127 THEN <<b>> \o utf8Decode(bytes, i + 1, 0, 0, 0, 128, 191)
      ELSE IF b \in 194..223 THEN utf8Decode(bytes, i + 1, b % 32, 0, 1, 128, 191)
      ELSE IF b \in 224..239
        THEN utf8Decode(bytes, i + 1, b % 16, 0, 2,
                        IF b = 224 THEN 160 ELSE 128, IF b = 237 THEN 159 ELSE 191)
      ELSE IF b \in 240..244
        THEN utf8Decode(bytes, i + 1, b % 8, 0, 3,
                        IF b = 240 THEN 144 ELSE 128, IF b = 244 THEN 143 ELSE 191)
      ELSE <<65533>> \o utf8Decode(bytes, i + 1, 0, 0, 0, 128, 191)
    ELSE IF b \notin lower..upper
      THEN <<65533>> \o utf8Decode(bytes, i, 0, 0, 0, 128, 191)
    ELSE IF seen + 1 = needed
      THEN <<cp * 64 + (b % 64)>> \o utf8Decode(bytes, i + 1, 0, 0, 0, 128, 191)
    ELSE utf8Decode(bytes, i + 1, cp * 64 + (b % 64), seen + 1, needed, 128, 191)

\* the UTF-16 decoder of TextDecoder, in replacement mode: code points; lead is
\* the pending first byte of a code unit and surrogate the pending lead
\* surrogate, -1 when there is none
RECURSIVE utf16Decode(_, _, _, _, _)
utf16Decode(bytes, i, lead, surrogate, be) ==
  IF i > Len(bytes)
    THEN (IF lead # -1 \/ surrogate # -1 THEN <<65533>> ELSE <<>>)
  ELSE IF lead = -1 THEN utf16Decode(bytes, i + 1, bytes[i], surrogate, be)
  ELSE LET cu == IF be THEN lead * 256 + bytes[i] ELSE bytes[i] * 256 + lead IN
    IF surrogate # -1
      THEN IF cu \in 56320..57343
             THEN <<65536 + (surrogate - 55296) * 1024 + (cu - 56320)>>
                    \o utf16Decode(bytes, i + 1, -1, -1, be)
             ELSE <<65533>> \o utf16Decode(bytes, i - 1, -1, -1, be)
    ELSE IF cu \in 55296..56319 THEN utf16Decode(bytes, i + 1, -1, cu, be)
    ELSE IF cu \in 56320..57343 THEN <<65533>> \o utf16Decode(bytes, i + 1, -1, -1, be)
    ELSE <<cu>> \o utf16Decode(bytes, i + 1, -1, -1, be)

\* a string holds a code point above U+FFFF as a surrogate pair
RECURSIVE toCodeUnits(_)
toCodeUnits(cps) ==
  IF cps = <<>> THEN <<>>
  ELSE (IF Head(cps) >= 65536
          THEN <<55296 + ((Head(cps) - 65536) \div 1024),
                 56320 + ((Head(cps) - 65536) % 1024)>>
          ELSE <<Head(cps)>>)
       \o toCodeUnits(Tail(cps))

\* new TextDecoder(label).decode(bytes): not fatal, and a leading U+FEFF of the
\* decoded text is dropped (ignoreBOM is false)
TextDecoderDecode(label, bytes) ==
  LET cps == CASE label = "utf-8"    -> utf8Decode(bytes, 1, 0, 0, 0, 128, 191)
               [] label = "utf-16le" -> utf16Decode(bytes, 1, -1, -1, FALSE)
               [] label = "utf-16be" -> utf16Decode(bytes, 1, -1, -1, TRUE)
  IN toCodeUnits(IF cps # <<>> /\ cps[1] = 65279 THEN Tail(cps) ELSE cps)

\* bytes.subarray(2)
subarray(bytes, begin) == SubSeq(bytes, begin + 1, Len(bytes))

\* the decoder as a bug would make it: the two byte orders are taken for each
\* other
decodeXmlBytesSwapped(bytes) ==
  IF Len(bytes) >= 2 /\ bytes[1] * 256 + bytes[2] = 65534
    THEN TextDecoderDecode("utf-16be", subarray(bytes, 2))
  ELSE IF Len(bytes) >= 2 /\ bytes[1] * 256 + bytes[2] = 65279
    THEN TextDecoderDecode("utf-16le", subarray(bytes, 2))
  ELSE TextDecoderDecode("utf-8", bytes)

\* bom = (bytes[0] << 8) | bytes[1]; 0xfffe is 65534 and 0xfeff is 65279
decodeXmlBytes(bytes) ==
  IF Len(bytes) >= 2 /\ bytes[1] * 256 + bytes[2] = 65534
    THEN TextDecoderDecode("utf-16le", subarray(bytes, 2))
  ELSE IF Len(bytes) >= 2 /\ bytes[1] * 256 + bytes[2] = 65279
    THEN TextDecoderDecode("utf-16be", subarray(bytes, 2))
  ELSE TextDecoderDecode("utf-8", bytes)

MaxBytes == 4

\* 0xFF, 0xFE, "A", 0x00, the two bytes of U+00E9 in UTF-8, and 0xD8, the high
\* byte of a lead surrogate
DecoderBytes == {255, 254, 65, 0, 195, 169, 216}

InitDecode ==
  /\ xmlBytes \in SeqsUpTo(DecoderBytes, MaxBytes)
  /\ xmlContent = <<>>
  /\ runs = <<>>
  /\ app = <<>>
  /\ workers = <<>>
  /\ timers = 0
  /\ alerts = <<>>
  /\ input = <<>>
  /\ tempDir = <<>>
  /\ dirs = {}
  /\ walk = <<>>
  /\ fileCount = 0
  /\ visited = <<>>
  /\ parsed = <<>>
  /\ archive = [loadable |-> FALSE, members |-> <<>>]
  /\ extractFromPreview = FALSE
  /\ pc = "decode"
  /\ totalFiles = 0
  /\ processedFiles = 0
  /\ parseErrors = 0
  /\ contacts = <<>>
  /\ pending = <<>>
  /\ observed = <<>>
  /\ msgs = <<>>
  /\ result = NoResult
  /\ contactsB = <<>>
  /\ pendingB = <<>>
  /\ previewArg = <<>>

\* const xmlContent = decodeXmlBytes(xmlBytes)
Decode ==
  /\ pc = "decode"
  /\ xmlContent' = decodeXmlBytes(xmlBytes)
  /\ pc' = "decoded"
  /\ UNCHANGED <<appVars, cliVars, runs, archive, extractFromPreview, totalFiles, processedFiles, parseErrors,
                 contacts, pending, observed, msgs, result, contactsB, pendingB,
                 previewArg, xmlBytes>>

NextDecode == Decode

SpecDecode == InitDecode /\ [][NextDecode]_vars

\* C19: the first two bytes decide the encoding: 0xFF 0xFE selects UTF-16
\* little-endian and 0xFE 0xFF UTF-16 big-endian, each applied to the bytes after
\* the first two; any other start, and any input shorter than two bytes, is
\* decoded as UTF-8 over all the bytes. Exactly one of the three applies to
\* every input, and the result is always a text: no error is raised.
C19_EncodingFromFirstTwoBytes ==
  pc = "decoded" =>
    \A b \in {xmlBytes} :
      /\ (Len(b) >= 2 /\ b[1] = 255 /\ b[2] = 254)
           => xmlContent = TextDecoderDecode("utf-16le", SubSeq(b, 3, Len(b)))
      /\ (Len(b) >= 2 /\ b[1] = 254 /\ b[2] = 255)
           => xmlContent = TextDecoderDecode("utf-16be", SubSeq(b, 3, Len(b)))
      /\ (Len(b) < 2 \/ <<b[1], b[2]>> \notin {<<255, 254>>, <<254, 255>>})
           => xmlContent = TextDecoderDecode("utf-8", b)
      /\ \A k \in 1..Len(xmlContent) : xmlContent[k] \in 0..65535
      /\ b = <<255, 254, 65, 0>> => xmlContent = <<65>>
      /\ b = <<254, 255, 0, 65>> => xmlContent = <<65>>
      /\ b = <<195, 169, 65>> => xmlContent = <<233, 65>>
      /\ b = <<255>> => xmlContent = <<65533>>
      /\ b = <<255, 254, 0, 216>> => xmlContent = <<65533>>

\* "A" has been decoded from its UTF-16 little-endian bytes behind the mark
\* 0xFF 0xFE
C19_Witness ==
  /\ pc = "decoded"
  /\ xmlBytes = <<255, 254, 65, 0>>
  /\ xmlContent = <<65>>

---------------------------------------------------------------------------
(* Several requests to one worker: the host posts the same file with the   *)
(* same flag again, while an earlier invocation of the handler waits at    *)
(* one of its awaits or after it has returned. The variables hold the      *)
(* locals of the invocation that is executing; runs holds the other        *)
(* invocations, waiting or returned, each with its own locals. msgs is the *)
(* one channel to the host, which all invocations post to.                 *)

MaxRuns == 2

\* the handler is async: an invocation gives way at file.arrayBuffer() and
\* JSZip.loadAsync (pc = "start") and at zip.files[fileName].async(...) at the
\* head of every iteration, and has returned when pc = "done"
AtAwait == pc = "start" \/ (pc = "loop" /\ processedFiles < totalFiles)

\* the invocation at hand with its locals, as it is set aside; type is its
\* final message, once posted
Invocation ==
  [pc |-> pc, totalFiles |-> totalFiles, processedFiles |-> processedFiles,
   parseErrors |-> parseErrors, contacts |-> contacts, result |-> result,
   type |-> IF pc = "done" THEN msgs[Len(msgs)].type ELSE "none"]

\* the next message event: self.onmessage is entered again, for the same file
\* and flag, while the earlier invocations wait or after they have returned;
\* the locals of the new invocation are set when it reaches their declarations
NewRequest ==
  /\ AtAwait \/ pc = "done"
  /\ Len(runs) + 1 < MaxRuns
  /\ runs' = Append(runs, Invocation)
  /\ pc' = "start"
  /\ UNCHANGED <<appVars, cliVars, archive, extractFromPreview, totalFiles, processedFiles, parseErrors,
                 contacts, pending, observed, msgs, result, contactsB, pendingB,
                 previewArg, xmlBytes, xmlContent>>

\* the promise another invocation waits for settles first: that invocation
\* goes on with its own locals, and the one at hand waits
Resume ==
  /\ AtAwait \/ pc = "done"
  /\ \E k \in 1..Len(runs) :
       /\ runs[k].pc # "done"
       /\ runs' = [runs EXCEPT ![k] = Invocation]
       /\ pc' = runs[k].pc
       /\ totalFiles' = runs[k].totalFiles
       /\ processedFiles' = runs[k].processedFiles
       /\ parseErrors' = runs[k].parseErrors
       /\ contacts' = runs[k].contacts
       /\ result' = runs[k].result
  /\ UNCHANGED <<appVars, cliVars, archive, extractFromPreview, pending, observed, msgs,
                 contactsB, pendingB, previewArg, xmlBytes, xmlContent>>

NextRuns ==
  \/ LoadFails
  \/ NoXmlFiles
  \/ StartRun
  \/ SkipMember
  \/ BeginMember
  \/ Observe
  \/ EndMember
  \/ Finish
  \/ NewRequest
  \/ Resume

\* the archives of the repeated runs: short ones, since the invocations of
\* several requests interleave at every await
MaxRunFiles == 2

RunArchives ==
  {[loadable |-> FALSE, members |-> <<>>]}
    \cup {[loadable |-> TRUE, members |-> ms] :
            ms \in SeqsUpTo({mEndToEnd, mUnreadable}, MaxRunFiles)}

InitRuns ==
  /\ archive \in RunArchives
  /\ extractFromPreview \in BOOLEAN
  /\ pc = "start"
  /\ totalFiles = 0
  /\ processedFiles = 0
  /\ parseErrors = 0
  /\ contacts = <<>>
  /\ pending = <<>>
  /\ observed = <<>>
  /\ msgs = <<>>
  /\ result = NoResult
  /\ contactsB = <<>>
  /\ pendingB = <<>>
  /\ previewArg = <<>>
  /\ xmlBytes = <<>>
  /\ xmlContent = <<>>
  /\ runs = <<>>
  /\ app = <<>>
  /\ workers = <<>>
  /\ timers = 0
  /\ alerts = <<>>
  /\ input = <<>>
  /\ tempDir = <<>>
  /\ dirs = {}
  /\ walk = <<>>
  /\ fileCount = 0
  /\ visited = <<>>
  /\ parsed = <<>>

SpecRuns == InitRuns /\ [][NextRuns]_vars

\* the locals of two invocations that have come equally far
SameLocals(r) ==
  /\ r.totalFiles = totalFiles
  /\ r.parseErrors = parseErrors
  /\ r.contacts = contacts

\* C20: runs on the same archive with the same flag, one after another or
\* overlapping at the awaits of the handler, end with the same final message
\* and the same all-contacts CSV, frequent CSV and vCard text (and the same
\* counters and top contacts); every run starts its loop with an empty
\* registry and zeroed counters; and no run is influenced by another: two
\* invocations that have handled equally many members hold the same registry
\* and counters, however their steps were interleaved.
C20_RunsAreRepeatable ==
  /\ pc = "done" => \A k \in 1..Len(runs) :
       runs[k].pc = "done" =>
         /\ runs[k].type = msgs[Len(msgs)].type
         /\ runs[k].result.csvData = result.csvData
         /\ runs[k].result.csvFrequentData = result.csvFrequentData
         /\ runs[k].result.vcardData = result.vcardData
         /\ runs[k].result = result
  /\ (pc = "loop" /\ processedFiles = 0) =>
       contacts = <<>> /\ parseErrors = 0
  /\ \A k \in 1..Len(runs) :
       (runs[k].pc = "loop" /\ runs[k].processedFiles = 0) =>
         runs[k].contacts = <<>> /\ runs[k].parseErrors = 0
  /\ \A k \in 1..Len(runs) :
       (runs[k].pc = pc /\ pc \in {"loop", "done"}
          /\ runs[k].processedFiles = processedFiles) => SameLocals(runs[k])

\* two runs on an archive with contacts, the second entered while the first
\* waited for its first member, have both completed with the same output
C20_Witness ==
  /\ Finished
  /\ Len(runs) = 1
  /\ runs[1].type = "complete"
  /\ runs[1].result.totalContacts >= 2
  /\ runs[1].result.csvData = result.csvData
  /\ Len(msgs) >= 4
  /\ msgs[1].type = "debug" /\ msgs[2].type = "debug"

---------------------------------------------------------------------------
(* The command-line tool: extractContactsFromParsed                        *)
(*                                                                         *)
(* The tree xml2js returns is given node by node: a node is an object, an  *)
(* array or a string. An object has its attributes ("$", here one          *)
(* emailAddress entry [hasAddr, addr, hasName, name] whose values xml2js   *)
(* has already entity-decoded), its text ("_") and its other properties as *)
(* kids, a sequence of [key, value] in property order; the items of an     *)
(* array are its kids. "$" and "_" are left out of kids: searchObject      *)
(* recurses into the attribute object and finds only strings there.        *)

NoAttrs == [hasAddr |-> FALSE, addr |-> <<>>, hasName |-> FALSE, name |-> <<>>]

Str(text)         == [kind |-> "string", hasAttrs |-> FALSE, attrs |-> NoAttrs,
                      kids |-> <<>>, text |-> text]
Obj(kids)         == [kind |-> "object", hasAttrs |-> FALSE, attrs |-> NoAttrs,
                      kids |-> kids, text |-> <<>>]
Elem(attrs, kids) == [kind |-> "object", hasAttrs |-> TRUE, attrs |-> attrs,
                      kids |-> kids, text |-> <<>>]
TextElem(text)    == [kind |-> "object", hasAttrs |-> FALSE, attrs |-> NoAttrs,
                      kids |-> <<>>, text |-> text]
Arr(items)        == [kind |-> "array", hasAttrs |-> FALSE, attrs |-> NoAttrs,
                      kids |-> [i \in 1..Len(items) |-> [key |-> "item", value |-> items[i]]],
                      text |-> <<>>]
Kid(key, value)   == [key |-> key, value |-> value]

\* currentSource of the outermost call
NoSource == "undefined"

\* key in record
hasKey(record, key) ==
  record.kind = "object" /\ \E i \in 1..Len(record.kids) : record.kids[i].key = key

\* record[key]
valueOf(record, key) ==
  record.kids[CHOOSE i \in 1..Len(record.kids) : record.kids[i].key = key].value

\* the accepted entry, or nothing
extractEmailFromAttributes(attrs) ==
  IF attrs.hasAddr /\ includes(attrs.addr, "@")
    THEN << [email |-> toLowerCase(attrs.addr),
             name  |-> IF attrs.hasName THEN attrs.name ELSE <<>>] >>
    ELSE <<>>

\* the inline fold of searchObject's attribute branch
foldStructured(cs, email, name, source) ==
  LET i == IndexOfKey(cs, email) IN
  IF i # 0
    THEN [cs EXCEPT ![i].count = @ + 1,
                    ![i].name = IF name # <<>> /\ @ = <<>> THEN name ELSE @]
    ELSE Append(cs, [key |-> email, email |-> email, name |-> name,
                     source |-> source, count |-> 1])

\* the preview branch's fold as a bug would make it: a repeated address keeps
\* its count
foldPreviewSkipCount(cs, email, name, source) ==
  LET i == IndexOfKey(cs, email) IN
  IF i # 0
    THEN [cs EXCEPT ![i].name = IF name # <<>> /\ @ = <<>> THEN name ELSE @]
    ELSE Append(cs, [key |-> email, email |-> email, name |-> name,
                     source |-> source, count |-> 1])

\* the inline fold of searchObject's preview branch
foldPreview(cs, email, name, source) ==
  LET i == IndexOfKey(cs, email) IN
  IF i # 0
    THEN [cs EXCEPT ![i].count = @ + 1,
                    ![i].name = IF name # <<>> /\ @ = <<>> THEN name ELSE @]
    ELSE Append(cs, [key |-> email, email |-> email, name |-> name,
                     source |-> source, count |-> 1])

\* the text the preview branch takes from record["OPFMessageCopyPreview"]:
\* the value itself when it is a string, else its "_"; empty when there is none
previewTextOf(previewValue) ==
  IF previewValue.kind = "array" THEN <<>> ELSE previewValue.text

\* the candidates searchObject folds into the registry, in the order of its
\* folds; branch tells which of the two inline folds takes the candidate
RECURSIVE searchObject(_, _, _)
RECURSIVE searchFields(_, _, _)
RECURSIVE searchItems(_, _, _, _)
RECURSIVE searchValues(_, _, _, _)

\* the for loop over emailFields: the container's value is searched with the
\* container's role
searchFields(record, k, flag) ==
  IF k > Len(emailFields) THEN <<>>
  ELSE (IF hasKey(record, emailFields[k].key)
          THEN searchObject(valueOf(record, emailFields[k].key), emailFields[k].source, flag)
          ELSE <<>>)
       \o searchFields(record, k + 1, flag)

\* for (const item of value) searchObject(item, currentSource)
searchItems(items, i, currentSource, flag) ==
  IF i > Len(items) THEN <<>>
  ELSE searchObject(items[i].value, currentSource, flag)
         \o searchItems(items, i + 1, currentSource, flag)

\* the for loop over Object.values(record): every value, the containers'
\* values included, is searched with the caller's role
searchValues(kids, i, currentSource, flag) ==
  IF i > Len(kids) THEN <<>>
  ELSE (IF kids[i].value.kind = "array"
          THEN searchItems(kids[i].value.kids, 1, currentSource, flag)
          ELSE IF kids[i].value.kind = "object"
            THEN searchObject(kids[i].value, currentSource, flag)
            ELSE <<>>)
       \o searchValues(kids, i + 1, currentSource, flag)

searchObject(obj, currentSource, flag) ==
  IF obj.kind = "string" THEN <<>>
  ELSE
    LET extracted == IF obj.hasAttrs THEN extractEmailFromAttributes(obj.attrs) ELSE <<>>
        own == IF extracted # <<>> /\ currentSource # NoSource
                 THEN << [email |-> extracted[1].email, name |-> extracted[1].name,
                          source |-> currentSource, branch |-> "structured"] >>
                 ELSE <<>>
        previewText == IF flag /\ hasKey(obj, PreviewTag)
                         THEN previewTextOf(valueOf(obj, PreviewTag))
                         ELSE <<>>
        previewEmails == IF previewText # <<>>
                           THEN extractEmailsFromPreview(previewText)
                           ELSE <<>>
    IN own
         \o searchFields(obj, 1, flag)
         \o [i \in 1..Len(previewEmails) |->
               [email |-> previewEmails[i].email, name |-> previewEmails[i].name,
                source |-> previewEmails[i].source, branch |-> "preview"]]
         \o searchValues(obj.kids, 1, currentSource, flag)

\* the registry after the folds of a sequence of candidates
RECURSIVE foldParsed(_, _)
foldParsed(cs, cands) ==
  IF cands = <<>> THEN cs
  ELSE foldParsed(IF Head(cands).branch = "structured"
                    THEN foldStructured(cs, Head(cands).email, Head(cands).name,
                                        Head(cands).source)
                    ELSE foldPreview(cs, Head(cands).email, Head(cands).name,
                                     Head(cands).source),
                  Tail(cands))

\* if (!parsed || typeof parsed !== "object") return; searchObject(parsed)
extractContactsFromParsed(tree, cs, flag) ==
  IF tree.kind = "string" THEN cs
  ELSE foldParsed(cs, searchObject(tree, NoSource, flag))

---------------------------------------------------------------------------
(* The command-line tool: main, extractOlmFile and processDirectory        *)
(*                                                                         *)
(* What the input path names is given as [kind, extractable, tree,         *)
(* outputExists]: kind is "file", "directory" or "missing"; extractable    *)
(* tells whether AdmZip can extract the file; tree is the directory (the   *)
(* extracted archive, or the input directory itself); outputExists tells   *)
(* whether ./output is there before the run. A directory entry is          *)
(* [isDirectory, name, listable, entries, readable, wellFormed, doc]:      *)
(* listable tells whether readdir succeeds, readable whether readFile      *)
(* succeeds, wellFormed whether parseStringPromise succeeds, doc is the    *)
(* parsed tree.                                                            *)

MaxEntries == 2

File(name, readable, wellFormed, doc) ==
  [isDirectory |-> FALSE, name |-> name, listable |-> FALSE, entries |-> <<>>,
   readable |-> readable, wellFormed |-> wellFormed, doc |-> doc]
Dir(name, listable, es) ==
  [isDirectory |-> TRUE, name |-> name, listable |-> listable, entries |-> es,
   readable |-> FALSE, wellFormed |-> FALSE, doc |-> Str(<<>>)]

\* the documents of the integration tests, as xml2js returns them
docTo ==
  Obj(<< Kid("root", Obj(<< Kid("OPFMessageCopyToAddresses",
           Obj(<< Kid("emailAddress", Elem(Entry(sToLower, sToName), <<>>)) >>)) >>)) >>)
docFrom ==
  Obj(<< Kid("root", Obj(<< Kid("OPFMessageCopyFromAddresses",
           Obj(<< Kid("emailAddress", Elem(EntryNoName(sFromLower), <<>>)) >>)) >>)) >>)

sMessageXml == <<"m","e","s","s","a","g","e",".","x","m","l">>
sOtherXml   == <<"o","t","h","e","r",".","x","m","l">>
sBadXml     == <<"b","a","d",".","x","m","l">>
sCutXml     == <<"c","u","t",".","x","m","l">>
sNotesTxt   == <<"n","o","t","e","s",".","t","x","t">>
sSub        == <<"s","u","b">>
sDirXml     == <<"d","i","r",".","x","m","l">>
sDotXml     == <<".","x","m","l">>

fTo         == File(sMessageXml, TRUE, TRUE, docTo)
fFrom       == File(sOtherXml, TRUE, TRUE, docFrom)
fUnreadable == File(sBadXml, FALSE, TRUE, docTo)
fMalformed  == File(sCutXml, TRUE, FALSE, docTo)
fTxt        == File(sNotesTxt, TRUE, TRUE, docTo)

LeafEntries == {fTo, fFrom, fUnreadable, fMalformed, fTxt}

SubDirs ==
  {Dir(sSub, TRUE, <<f>>) : f \in LeafEntries}
    \cup {Dir(sSub, FALSE, <<fTo>>),
          Dir(sSub, TRUE, <<Dir(sSub, TRUE, <<fFrom>>)>>),
          Dir(sDirXml, TRUE, <<fTo>>)}

Trees ==
  {Dir(<<>>, TRUE, es) : es \in SeqsUpTo(LeafEntries \cup SubDirs, MaxEntries)}
    \cup {Dir(<<>>, FALSE, <<fTo>>)}

\* what the first argument names on disk, and whether the output directory
\* is there already
Inputs ==
  {[kind |-> "missing", extractable |-> FALSE, tree |-> Dir(<<>>, FALSE, <<>>),
    outputExists |-> FALSE],
   [kind |-> "file", extractable |-> FALSE, tree |-> Dir(<<>>, FALSE, <<>>),
    outputExists |-> FALSE]}
    \cup {[kind |-> k, extractable |-> TRUE, tree |-> t, outputExists |-> w] :
            k \in {"file", "directory"}, t \in Trees, w \in BOOLEAN}

\* main's tempDir before extractOlmFile has returned
NoDir == "null"
\* the directory mkdtemp creates, and the input directory
TempName == "olm-extract-XXXXXX"
InputDir == "input"
\* outputDir
OutputDir == "output"

\* str.endsWith(suffix)
endsWith(str, suffix) ==
  /\ Len(str) >= Len(suffix)
  /\ SubSeq(str, Len(str) - Len(suffix) + 1, Len(str)) = suffix

\* the three texts main writes
cliOutputs(cs) ==
  LET sortedContacts == sortByCount(contactValues(cs)) IN
  [csvData         |-> generateCSV(sortedContacts),
   csvFrequentData |-> generateCSV(filterFrequent(sortedContacts)),
   vcardData       |-> generateVCard(sortedContacts)]

\* the output files before main has written any: files holds the names of
\* the files main has written, the other fields their texts (the vCard text of
\* an empty registry is the empty text)
NoOutputs == [files |-> {}, csvData |-> <<>>, csvFrequentData |-> <<>>, vcardData |-> <<>>]

InitCli ==
  /\ input \in Inputs
  /\ extractFromPreview = FALSE
  /\ pc = "main"
  /\ tempDir = NoDir
  /\ dirs = (IF input.kind = "directory" THEN {InputDir} ELSE {})
              \cup (IF input.outputExists THEN {OutputDir} ELSE {})
  /\ walk = <<>>
  /\ fileCount = 0
  /\ visited = <<>>
  /\ contacts = <<>>
  /\ observed = <<>>
  /\ result = NoOutputs
  /\ archive = <<>>
  /\ totalFiles = 0
  /\ processedFiles = 0
  /\ parseErrors = 0
  /\ pending = <<>>
  /\ msgs = <<>>
  /\ contactsB = <<>>
  /\ pendingB = <<>>
  /\ previewArg = <<>>
  /\ xmlBytes = <<>>
  /\ xmlContent = <<>>
  /\ runs = <<>>
  /\ app = <<>>
  /\ workers = <<>>
  /\ timers = 0
  /\ alerts = <<>>
  /\ parsed = <<>>

\* existsSync(input) is false: process.exit(1)
InputNotFound ==
  /\ pc = "main"
  /\ input.kind = "missing"
  /\ pc' = "exit"
  /\ UNCHANGED <<appVars, cliVars, runs, archive, extractFromPreview, totalFiles,
                 processedFiles, parseErrors, contacts, pending, observed, msgs, result,
                 contactsB, pendingB, previewArg, xmlBytes, xmlContent>>

\* the input is a file: extractOlmFile creates the temporary directory
Mkdtemp ==
  /\ pc = "main"
  /\ input.kind = "file"
  /\ TempName \notin dirs
  /\ dirs' = dirs \cup {TempName}
  /\ pc' = "extract"
  /\ UNCHANGED <<appVars, input, tempDir, walk, fileCount, visited, parsed, runs, archive,
                 extractFromPreview, totalFiles, processedFiles, parseErrors, contacts,
                 pending, observed, msgs, result, contactsB, pendingB, previewArg,
                 xmlBytes, xmlContent>>

\* the archive is extracted; extractOlmFile returns the directory to main
ExtractAllTo ==
  /\ pc = "extract"
  /\ input.extractable
  /\ tempDir' = TempName
  /\ pc' = "scan"
  /\ UNCHANGED <<appVars, input, dirs, walk, fileCount, visited, parsed, runs, archive,
                 extractFromPreview, totalFiles, processedFiles, parseErrors, contacts,
                 pending, observed, msgs, result, contactsB, pendingB, previewArg,
                 xmlBytes, xmlContent>>

\* the extraction as a bug would make it: the error is rethrown without the
\* directory being removed
ExtractThrowsKeepsDir ==
  /\ pc = "extract"
  /\ ~input.extractable
  /\ pc' = "exit"
  /\ UNCHANGED <<appVars, cliVars, runs, archive, extractFromPreview, totalFiles,
                 processedFiles, parseErrors, contacts, pending, observed, msgs, result,
                 contactsB, pendingB, previewArg, xmlBytes, xmlContent>>

\* AdmZip throws: extractOlmFile removes the directory and rethrows, main rejects
ExtractThrows ==
  /\ pc = "extract"
  /\ ~input.extractable
  /\ dirs' = dirs \ {TempName}
  /\ pc' = "exit"
  /\ UNCHANGED <<appVars, input, tempDir, walk, fileCount, visited, parsed, runs, archive,
                 extractFromPreview, totalFiles, processedFiles, parseErrors, contacts,
                 pending, observed, msgs, result, contactsB, pendingB, previewArg,
                 xmlBytes, xmlContent>>

\* the input is a directory: olmDir = input, tempDir stays null
UseDirectory ==
  /\ pc = "main"
  /\ input.kind = "directory"
  /\ pc' = "scan"
  /\ UNCHANGED <<appVars, cliVars, runs, archive, extractFromPreview, totalFiles,
                 processedFiles, parseErrors, contacts, pending, observed, msgs, result,
                 contactsB, pendingB, previewArg, xmlBytes, xmlContent>>

\* readdir(currentDir) at the head of processDir: the entries to visit, or an
\* immediate return when it throws
readdir(d) == IF d.listable THEN <<d.entries>> ELSE <<>>

\* the current call of processDir moves on to its next entry
advance(stack) == [stack EXCEPT ![Len(stack)] = Tail(@)]

\* the entry the innermost call of processDir is at
Current == Head(walk[Len(walk)])

\* main creates the registry and calls processDirectory on olmDir
ProcessDirectory ==
  /\ pc = "scan"
  /\ contacts' = <<>>
  /\ fileCount' = 0
  /\ walk' = readdir(input.tree)
  /\ pc' = "walk"
  /\ UNCHANGED <<appVars, input, tempDir, dirs, visited, parsed, runs, archive,
                 extractFromPreview, totalFiles, processedFiles, parseErrors,
                 pending, observed, msgs, result, contactsB, pendingB, previewArg,
                 xmlBytes, xmlContent>>

\* entry.isDirectory(): the recursive call of processDir
EnterDirectory ==
  /\ pc = "walk"
  /\ walk # <<>>
  /\ walk[Len(walk)] # <<>>
  /\ Current.isDirectory
  /\ walk' = advance(walk) \o readdir(Current)
  /\ UNCHANGED <<appVars, pc, input, tempDir, dirs, fileCount, visited, parsed, runs, archive,
                 extractFromPreview, totalFiles, processedFiles, parseErrors, contacts,
                 pending, observed, msgs, result, contactsB, pendingB, previewArg,
                 xmlBytes, xmlContent>>

\* the file as a bug would count it: fileCount++ outside the try block
SkipXmlFileCounted ==
  /\ pc = "walk"
  /\ walk # <<>>
  /\ walk[Len(walk)] # <<>>
  /\ ~Current.isDirectory
  /\ endsWith(Current.name, sDotXml)
  /\ ~(Current.readable /\ Current.wellFormed)
  /\ fileCount' = fileCount + 1
  /\ visited' = Append(visited, Current)
  /\ walk' = advance(walk)
  /\ UNCHANGED <<appVars, pc, input, tempDir, dirs, parsed, runs, archive,
                 extractFromPreview, totalFiles, processedFiles, parseErrors, contacts,
                 pending, observed, msgs, result, contactsB, pendingB, previewArg,
                 xmlBytes, xmlContent>>

\* a .xml file whose readFile or parseStringPromise throws: the catch skips it
SkipXmlFile ==
  /\ pc = "walk"
  /\ walk # <<>>
  /\ walk[Len(walk)] # <<>>
  /\ ~Current.isDirectory
  /\ endsWith(Current.name, sDotXml)
  /\ ~(Current.readable /\ Current.wellFormed)
  /\ visited' = Append(visited, Current)
  /\ walk' = advance(walk)
  /\ UNCHANGED <<appVars, pc, input, tempDir, dirs, fileCount, parsed, runs, archive,
                 extractFromPreview, totalFiles, processedFiles, parseErrors, contacts,
                 pending, observed, msgs, result, contactsB, pendingB, previewArg,
                 xmlBytes, xmlContent>>

\* a .xml file that is read and parsed: its contacts are folded, it is counted
ProcessXmlFile ==
  /\ pc = "walk"
  /\ walk # <<>>
  /\ walk[Len(walk)] # <<>>
  /\ ~Current.isDirectory
  /\ endsWith(Current.name, sDotXml)
  /\ Current.readable /\ Current.wellFormed
  /\ contacts' = extractContactsFromParsed(Current.doc, contacts, extractFromPreview)
  /\ fileCount' = fileCount + 1
  /\ visited' = Append(visited, Current)
  /\ walk' = advance(walk)
  /\ UNCHANGED <<appVars, pc, input, tempDir, dirs, parsed, runs, archive,
                 extractFromPreview, totalFiles, processedFiles, parseErrors,
                 pending, observed, msgs, result, contactsB, pendingB, previewArg,
                 xmlBytes, xmlContent>>

\* an entry that is neither a directory nor named *.xml
IgnoreEntry ==
  /\ pc = "walk"
  /\ walk # <<>>
  /\ walk[Len(walk)] # <<>>
  /\ ~Current.isDirectory
  /\ ~endsWith(Current.name, sDotXml)
  /\ walk' = advance(walk)
  /\ UNCHANGED <<appVars, pc, input, tempDir, dirs, fileCount, visited, parsed, runs, archive,
                 extractFromPreview, totalFiles, processedFiles, parseErrors, contacts,
                 pending, observed, msgs, result, contactsB, pendingB, previewArg,
                 xmlBytes, xmlContent>>

\* the for loop of one call of processDir is over: the call returns
ReturnFromDir ==
  /\ pc = "walk"
  /\ walk # <<>>
  /\ walk[Len(walk)] = <<>>
  /\ walk' = SubSeq(walk, 1, Len(walk) - 1)
  /\ UNCHANGED <<appVars, pc, input, tempDir, dirs, fileCount, visited, parsed, runs, archive,
                 extractFromPreview, totalFiles, processedFiles, parseErrors, contacts,
                 pending, observed, msgs, result, contactsB, pendingB, previewArg,
                 xmlBytes, xmlContent>>

\* processDirectory returns fileCount to main
ReturnFileCount ==
  /\ pc = "walk"
  /\ walk = <<>>
  /\ pc' = "write"
  /\ UNCHANGED <<appVars, cliVars, runs, archive, extractFromPreview, totalFiles,
                 processedFiles, parseErrors, contacts, pending, observed, msgs, result,
                 contactsB, pendingB, previewArg, xmlBytes, xmlContent>>

\* existsSync(outputDir) is true: no mkdir
OutputDirExists ==
  /\ pc = "write"
  /\ OutputDir \in dirs
  /\ pc' = "csv"
  /\ UNCHANGED <<appVars, cliVars, runs, archive, extractFromPreview, totalFiles,
                 processedFiles, parseErrors, contacts, pending, observed, msgs, result,
                 contactsB, pendingB, previewArg, xmlBytes, xmlContent>>

\* mkdir(outputDir, { recursive: true })
MkdirOutput ==
  /\ pc = "write"
  /\ OutputDir \notin dirs
  /\ dirs' = dirs \cup {OutputDir}
  /\ pc' = "csv"
  /\ UNCHANGED <<appVars, input, tempDir, walk, fileCount, visited, parsed, runs, archive,
                 extractFromPreview, totalFiles, processedFiles, parseErrors, contacts,
                 pending, observed, msgs, result, contactsB, pendingB, previewArg,
                 xmlBytes, xmlContent>>

\* writeFile(join(outputDir, "contacts.csv"), csvAll, "utf-8")
WriteCsv ==
  /\ pc = "csv"
  /\ result' = [result EXCEPT !.csvData = cliOutputs(contacts).csvData,
                               !.files = @ \cup {"contacts.csv"}]
  /\ pc' = "frequent"
  /\ UNCHANGED <<appVars, cliVars, runs, archive, extractFromPreview, totalFiles,
                 processedFiles, parseErrors, contacts, pending, observed, msgs,
                 contactsB, pendingB, previewArg, xmlBytes, xmlContent>>

\* writeFile(join(outputDir, "contacts-frequent.csv"), csvFrequent, "utf-8")
WriteFrequent ==
  /\ pc = "frequent"
  /\ result' = [result EXCEPT !.csvFrequentData = cliOutputs(contacts).csvFrequentData,
                               !.files = @ \cup {"contacts-frequent.csv"}]
  /\ pc' = "vcf"
  /\ UNCHANGED <<appVars, cliVars, runs, archive, extractFromPreview, totalFiles,
                 processedFiles, parseErrors, contacts, pending, observed, msgs,
                 contactsB, pendingB, previewArg, xmlBytes, xmlContent>>

\* writeFile(join(outputDir, "contacts.vcf"), vcard, "utf-8"): the last of the
\* three files; the console.log calls that follow change nothing
WriteVcf ==
  /\ pc = "vcf"
  /\ result' = [result EXCEPT !.vcardData = cliOutputs(contacts).vcardData,
                               !.files = @ \cup {"contacts.vcf"}]
  /\ pc' = "finally"
  /\ UNCHANGED <<appVars, cliVars, runs, archive, extractFromPreview, totalFiles,
                 processedFiles, parseErrors, contacts, pending, observed, msgs,
                 contactsB, pendingB, previewArg, xmlBytes, xmlContent>>

\* mkdir or one of the writeFile calls throws: control goes to the finally
\* block, and the files written before stay
WriteThrows ==
  /\ \/ pc = "write" /\ OutputDir \notin dirs
     \/ pc \in {"csv", "frequent", "vcf"}
  /\ pc' = "finally"
  /\ UNCHANGED <<appVars, cliVars, runs, archive, extractFromPreview, totalFiles,
                 processedFiles, parseErrors, contacts, pending, observed, msgs, result,
                 contactsB, pendingB, previewArg, xmlBytes, xmlContent>>

\* main's finally block: the temporary directory, if one was made, is removed
Finally ==
  /\ pc = "finally"
  /\ dirs' = IF tempDir # NoDir THEN dirs \ {tempDir} ELSE dirs
  /\ pc' = "exit"
  /\ UNCHANGED <<appVars, input, tempDir, walk, fileCount, visited, parsed, runs, archive,
                 extractFromPreview, totalFiles, processedFiles, parseErrors, contacts,
                 pending, observed, msgs, result, contactsB, pendingB, previewArg,
                 xmlBytes, xmlContent>>

NextCli ==
  \/ InputNotFound
  \/ Mkdtemp
  \/ ExtractAllTo
  \/ ExtractThrows
  \/ UseDirectory
  \/ ProcessDirectory
  \/ EnterDirectory
  \/ SkipXmlFile
  \/ ProcessXmlFile
  \/ IgnoreEntry
  \/ ReturnFromDir
  \/ ReturnFileCount
  \/ OutputDirExists
  \/ MkdirOutput
  \/ WriteCsv
  \/ WriteFrequent
  \/ WriteVcf
  \/ WriteThrows
  \/ Finally

SpecCli == InitCli /\ [][NextCli]_vars

---------------------------------------------------------------------------
(* processDirectory: what the walk visits, counts and folds *)

IsXmlFile(en) == ~en.isDirectory /\ endsWith(en.name, sDotXml)

\* the file is read and parsed without error
Parses(en) == en.readable /\ en.wellFormed

\* every *.xml file below a sequence of entries, in depth-first order
RECURSIVE XmlFilesUnder(_)
XmlFilesUnder(es) ==
  IF es = <<>> THEN <<>>
  ELSE (IF Head(es).isDirectory THEN XmlFilesUnder(Head(es).entries)
        ELSE IF IsXmlFile(Head(es)) THEN <<Head(es)>> ELSE <<>>)
       \o XmlFilesUnder(Tail(es))

\* those that lie in directories whose listing succeeds, all the way down
RECURSIVE XmlFilesListed(_)
XmlFilesListed(es) ==
  IF es = <<>> THEN <<>>
  ELSE (IF Head(es).isDirectory
          THEN (IF Head(es).listable THEN XmlFilesListed(Head(es).entries) ELSE <<>>)
        ELSE IF IsXmlFile(Head(es)) THEN <<Head(es)>> ELSE <<>>)
       \o XmlFilesListed(Tail(es))

\* the registry after the files of a sequence that parse, in order
RECURSIVE FoldFiles(_, _)
FoldFiles(cs, files) ==
  IF files = <<>> THEN cs
  ELSE FoldFiles(IF Parses(Head(files))
                   THEN extractContactsFromParsed(Head(files).doc, cs, extractFromPreview)
                   ELSE cs,
                 Tail(files))

\* processDirectory has returned and main has not gone on yet
WalkDone == pc = "write"

\* what processDirectory has done with a sequence of files: it has tried to
\* read exactly these, counted those that parse, and folded their contacts
WalkedExactly(files) ==
  /\ visited = files
  /\ fileCount = Cardinality({i \in 1..Len(files) : Parses(files[i])})
  /\ contacts = FoldFiles(<<>>, files)
  /\ TimesIn(files, fTo) > 0 =>
       \E i \in 1..Len(contacts) :
         /\ contacts[i].email = sToLower
         /\ contacts[i].name = sToName
         /\ contacts[i].source = "to"
         /\ contacts[i].count = TimesIn(files, fTo)

\* C21 as stated: processDirectory visits every file ending in .xml under the
\* directory tree, returns the number of them that were read, parsed and
\* extracted without error, skips a file whose read or parse throws without
\* counting it and without aborting the walk, and the contacts of the other
\* files are folded into the registry.
C21_VisitsEveryXmlFile ==
  WalkDone => WalkedExactly(XmlFilesUnder(<<input.tree>>))

\* C21, amended: the same of every file ending in .xml that lies in
\* directories whose listing succeeds; a directory whose listing throws is
\* passed over with everything under it, without aborting the walk.
C21_VisitsEveryListedXmlFile ==
  WalkDone => WalkedExactly(XmlFilesListed(<<input.tree>>))

\* the walk is over, it skipped a file that does not parse and went on to
\* count a later one and fold its contacts
C21_Witness ==
  /\ WalkDone
  /\ \E i \in 1..Len(visited) : \E j \in (i + 1)..Len(visited) :
       ~Parses(visited[i]) /\ Parses(visited[j])
  /\ fileCount >= 1
  /\ contacts # <<>>

---------------------------------------------------------------------------
(* The worker's preview path on preview bodies whose angle brackets are    *)
(* escaped zero or more times over: "&lt;" is the bracket as XML text      *)
(* holds it, "&amp;lt;" is the five characters "&lt;" as XML text holds    *)
(* them, and so on.                                                        *)

MaxEscapes == 2

\* the text with every "&" escaped k times over
RECURSIVE escapeTimes(_, _)
escapeTimes(text, k) ==
  IF k = 0 THEN text ELSE escapeTimes(replaceAll(text, <<"&">>, EntAmp), k - 1)

sFromAnn == <<"F","r","o","m",":"," ","A","n","n"," ">>
sToCy    == <<" ","T","o",":"," ","C","y"," ">> \o EntLt \o sCyAddr \o EntGt
sBold    == <<"<","b",">">>

EscapedPreviews ==
  {pre \o sFromAnn \o escapeTimes(EntLt, i) \o sAnnAddr \o escapeTimes(EntGt, j) \o post :
     i \in 0..MaxEscapes, j \in 0..MaxEscapes,
     pre \in {<<>>, sBold}, post \in {<<>>, sToCy}}

InitPreviewPath ==
  /\ archive \in {[loadable |-> TRUE, members |-> <<Member(<<Preview(t)>>)>>] :
                    t \in EscapedPreviews}
  /\ extractFromPreview = TRUE
  /\ pc = "start"
  /\ totalFiles = 0
  /\ processedFiles = 0
  /\ parseErrors = 0
  /\ contacts = <<>>
  /\ pending = <<>>
  /\ observed = <<>>
  /\ msgs = <<>>
  /\ result = NoResult
  /\ contactsB = <<>>
  /\ pendingB = <<>>
  /\ previewArg = <<>>
  /\ xmlBytes = <<>>
  /\ xmlContent = <<>>
  /\ runs = <<>>
  /\ app = <<>>
  /\ workers = <<>>
  /\ timers = 0
  /\ alerts = <<>>
  /\ input = <<>>
  /\ tempDir = <<>>
  /\ dirs = {}
  /\ walk = <<>>
  /\ fileCount = 0
  /\ visited = <<>>
  /\ parsed = <<>>

NextPreviewPath ==
  \/ StartRun
  \/ BeginMember
  \/ Observe
  \/ EndMember

SpecPreviewPath == InitPreviewPath /\ [][NextPreviewPath]_vars

\* the header matcher alone, on the text handed to it
MatcherOn(text) == lowerEmails(pushResults(execAll(text, 1)))

\* C22: in the worker's preview path the tags are stripped from the preview
\* body, the entities are then decoded exactly once, and the header matcher
\* runs on that text: what is observed for a member is what the matcher finds
\* in the once-decoded text, so that a bracket escaped twice over ("&amp;lt;")
\* reaches the matcher as "&lt;" and opens no address.
C22_EntitiesDecodedOnce ==
  (pc = "loop" /\ processedFiles = 1) =>
    observed = MatcherOn(decodeXmlEntities(stripTags(archive.members[1].elems[1].text)))

---------------------------------------------------------------------------
(* extractContactsFromParsed on parsed trees of arbitrary shape: entries   *)
(* under a container, under no container, under a container nested in      *)
(* another one, in arrays, and previews.                                   *)

MaxDepth == 2

TreeKeys == {"root", "emailAddress", "OPFMessageCopyToAddresses", "OPFMessageCopyCCAddresses"}
TreeContainerKeys == {"OPFMessageCopyToAddresses", "OPFMessageCopyCCAddresses"}

elAnn  == Elem(Entry(sAnnAddr, sAnn), <<>>)
elBob  == Elem(EntryNoName(sBobAddr), <<>>)
elNoAt == Elem(EntryNoName(sNoAt), <<>>)

\* the trees of depth at most d: a leaf, a tree under one key, or a container
\* that holds an entry of its own next to a tree under a container key
RECURSIVE TreesOfDepth(_)
TreesOfDepth(d) ==
  IF d = 0 THEN {elAnn, elBob, elNoAt, Str(sAnn)}
  ELSE LET T == TreesOfDepth(d - 1) IN
       T \cup {Obj(<<Kid(k, t)>>) : k \in TreeKeys, t \in T}
         \cup {Obj(<<Kid("emailAddress", elAnn), Kid(k, t)>>) : k \in TreeContainerKeys, t \in T}

ParsedTrees ==
  TreesOfDepth(MaxDepth)
    \cup {Obj(<<Kid(PreviewTag, TextElem(sPreviewXml))>>),
          Obj(<<Kid(PreviewTag, Str(sPreviewXml)),
                Kid("OPFMessageCopyBCCAddresses",
                    Obj(<<Kid("emailAddress", Arr(<<elAnn, elBob, elNoAt, elAnn>>))>>))>>),
          Obj(<<Kid("OPFMessageCopyToAddresses", Arr(<<elAnn, Obj(<<Kid("emailAddress", elBob)>>)>>)),
                Kid("OPFMessageCopyReplyToAddresses", elBob)>>)}

InitTree ==
  /\ parsed \in ParsedTrees
  /\ extractFromPreview \in BOOLEAN
  /\ pc = "parsed"
  /\ contacts = <<>>
  /\ pending = <<>>
  /\ observed = <<>>
  /\ archive = <<>>
  /\ totalFiles = 0
  /\ processedFiles = 0
  /\ parseErrors = 0
  /\ msgs = <<>>
  /\ result = NoResult
  /\ contactsB = <<>>
  /\ pendingB = <<>>
  /\ previewArg = <<>>
  /\ xmlBytes = <<>>
  /\ xmlContent = <<>>
  /\ runs = <<>>
  /\ app = <<>>
  /\ workers = <<>>
  /\ timers = 0
  /\ alerts = <<>>
  /\ input = <<>>
  /\ tempDir = <<>>
  /\ dirs = {}
  /\ walk = <<>>
  /\ fileCount = 0
  /\ visited = <<>>

\* extractContactsFromParsed is called: the folds searchObject is going to make
SearchParsed ==
  /\ pc = "parsed"
  /\ pending' = IF parsed.kind = "string" THEN <<>>
                ELSE searchObject(parsed, NoSource, extractFromPreview)
  /\ pc' = "fold"
  /\ UNCHANGED <<appVars, cliVars, runs, archive, extractFromPreview, totalFiles,
                 processedFiles, parseErrors, contacts, observed, msgs, result,
                 contactsB, pendingB, previewArg, xmlBytes, xmlContent>>

\* one inline fold of searchObject
FoldCandidate ==
  /\ pc = "fold"
  /\ pending # <<>>
  /\ contacts' = foldParsed(contacts, <<Head(pending)>>)
  /\ observed' = Append(observed, Head(pending))
  /\ pending' = Tail(pending)
  /\ UNCHANGED <<appVars, cliVars, runs, archive, extractFromPreview, pc, totalFiles,
                 processedFiles, parseErrors, msgs, result, contactsB, pendingB,
                 previewArg, xmlBytes, xmlContent>>

\* the outermost searchObject returns
ReturnParsed ==
  /\ pc = "fold"
  /\ pending = <<>>
  /\ pc' = "done"
  /\ UNCHANGED <<appVars, cliVars, runs, archive, extractFromPreview, totalFiles,
                 processedFiles, parseErrors, contacts, pending, observed, msgs, result,
                 contactsB, pendingB, previewArg, xmlBytes, xmlContent>>

NextTree ==
  \/ SearchParsed
  \/ FoldCandidate
  \/ ReturnParsed

SpecTree == InitTree /\ [][NextTree]_vars

\* the role an entry below a property has: that of the property when it is a
\* recognized container, else the role it had above
RoleBelow(key, role) == IF IsContainerTag(key) THEN RoleOfTag(key) ELSE role

\* one candidate per accepted entry of a tree, with the role of the nearest
\* enclosing recognized container; none for an entry under no container
RECURSIVE ExpectedOfTree(_, _)
RECURSIVE ExpectedOfKids(_, _)
ExpectedOfKids(kids, role) ==
  IF kids = <<>> THEN <<>>
  ELSE ExpectedOfTree(Head(kids).value, RoleBelow(Head(kids).key, role))
         \o ExpectedOfKids(Tail(kids), role)

ExpectedOfTree(tree, role) ==
  IF tree.kind = "string" THEN <<>>
  ELSE (IF tree.hasAttrs /\ Accepted(tree.attrs) /\ role # NoSource
          THEN << [email |-> toLowerCase(tree.attrs.addr),
                   name |-> IF tree.attrs.hasName THEN tree.attrs.name ELSE <<>>,
                   source |-> role] >>
          ELSE <<>>)
       \o ExpectedOfKids(tree.kids, role)

\* the observations of the attribute branch, as candidates
StructuredObserved ==
  LET idx == {i \in 1..Len(observed) : observed[i].branch = "structured"}
      nth(k) == CHOOSE i \in idx : Cardinality({j \in idx : j <= i}) = k
  IN [k \in 1..Cardinality(idx) |->
        [email |-> observed[nth(k)].email, name |-> observed[nth(k)].name,
         source |-> observed[nth(k)].source]]

\* C23: in the tree walk of the command-line tool every accepted address entry
\* under a recognized container produces exactly one observation, with the role
\* of its nearest enclosing recognized container, whatever the shape of the
\* tree (containers nested in containers included), and an entry under no
\* recognized container produces none.
C23_OneObservationPerEntry ==
  pc = "done" =>
    \A expected \in {ExpectedOfTree(parsed, NoSource)} :
      \A got \in {StructuredObserved} :
        /\ Len(got) = Len(expected)
        /\ \A i \in 1..Len(expected) : TimesIn(got, expected[i]) = TimesIn(expected, expected[i])

---------------------------------------------------------------------------
(* The App: handleFile, the worker's onmessage and onerror handlers, the   *)
(* setTimeout callback and reset                                           *)
(*                                                                         *)
(* A Worker object is [file, extractFromPreview, script, live, ended]:     *)
(* file and extractFromPreview are the request posted to it, script the    *)
(* messages it has still to deliver to the App, live tells that            *)
(* terminate() has not been called on it, ended names the event on which   *)
(* the App called terminate(). A terminated worker delivers nothing more.  *)

MaxWorkers == 2
MaxAlerts == 1

sBackupOlm == <<"b","a","c","k","u","p",".","o","l","m">>
sUpperOlm  == <<"B","A","C","K","U","P",".","O","L","M">>
sDotOlm    == <<".","o","l","m">>

FileNames == {sBackupOlm, sUpperOlm, sNotesTxt, sMessageXml}

\* a result is held as a sequence of at most one payload: null is the empty
\* sequence, the result of the App before any run and after reset
NullResult == <<>>

AppMsg(type, p, r) == [type |-> type, progress |-> p, result |-> r]

\* results a worker may send: no contact found, and the end-to-end example's
WorkerResults ==
  {<<completeResult(<<>>)>>,
   <<completeResult(foldContacts(<<>>, observations(documentOf(mEndToEnd.elems), FALSE)))>>}

\* what a worker posts for one request: at most one debug message, progress
\* messages, and one final message, or nothing at all before it fails
WorkerScripts ==
  {<<AppMsg("error", 0, NullResult)>>, <<>>,
   <<AppMsg("complete", 0, <<completeResult(<<>>)>>)>>,
   <<AppMsg("debug", 0, NullResult), AppMsg("progress", 50, NullResult),
     AppMsg("progress", 100, NullResult),
     AppMsg("complete", 0,
            <<completeResult(foldContacts(<<>>, observations(documentOf(mEndToEnd.elems), FALSE)))>>)>>}

AlertUpload     == "Please upload a .olm file"
AlertError      == "Error: ${error}"
AlertProcessing == "Error processing file. Please try again."

InitApp ==
  /\ app = [state |-> "idle", extractFromPreview |-> FALSE, progress |-> 0,
            result |-> NullResult, fileName |-> <<>>]
  /\ workers = <<>>
  /\ timers = 0
  /\ alerts = <<>>
  /\ archive = <<>>
  /\ extractFromPreview = FALSE
  /\ pc = "app"
  /\ totalFiles = 0
  /\ processedFiles = 0
  /\ parseErrors = 0
  /\ contacts = <<>>
  /\ pending = <<>>
  /\ observed = <<>>
  /\ msgs = <<>>
  /\ result = NoResult
  /\ contactsB = <<>>
  /\ pendingB = <<>>
  /\ previewArg = <<>>
  /\ xmlBytes = <<>>
  /\ xmlContent = <<>>
  /\ runs = <<>>
  /\ input = <<>>
  /\ tempDir = <<>>
  /\ dirs = {}
  /\ walk = <<>>
  /\ fileCount = 0
  /\ visited = <<>>
  /\ parsed = <<>>

nonAppVars == <<cliVars, runs, archive, extractFromPreview, pc, totalFiles, processedFiles,
                parseErrors, contacts, pending, observed, msgs, result, contactsB,
                pendingB, previewArg, xmlBytes, xmlContent>>

\* worker.terminate() on the event named
terminate(w, event) == [w EXCEPT !.live = FALSE, !.ended = event]

\* the checkbox of the upload section
SetExtractFromPreview ==
  /\ app.state = "idle"
  /\ app' = [app EXCEPT !.extractFromPreview = ~@]
  /\ UNCHANGED <<nonAppVars, workers, timers, alerts>>

\* handleFile on a file without the extension: alert and return. The drop zone
\* and the file input are rendered only while state is 'idle'.
HandleFileRejected ==
  /\ app.state = "idle"
  /\ Len(alerts) < MaxAlerts
  /\ \E name \in FileNames :
       /\ ~endsWith(toLowerCase(name), sDotOlm)
       /\ alerts' = Append(alerts, AlertUpload)
  /\ UNCHANGED <<nonAppVars, app, workers, timers>>

\* handleFile as a bug would make it: the drop zone takes a file in any state
HandleFileInAnyState ==
  /\ Len(workers) < MaxWorkers
  /\ \E name \in FileNames : \E s \in WorkerScripts :
       /\ endsWith(toLowerCase(name), sDotOlm)
       /\ app' = [app EXCEPT !.fileName = name, !.state = "processing", !.progress = 0]
       /\ workers' = Append(workers,
                            [file |-> name, extractFromPreview |-> app.extractFromPreview,
                             script |-> s, live |-> TRUE, ended |-> "none"])
  /\ UNCHANGED <<nonAppVars, timers, alerts>>

\* handleFile on a .olm file, from the drop zone or the file input: a worker
\* is created and the request is posted to it
HandleFile ==
  /\ app.state = "idle"
  /\ Len(workers) < MaxWorkers
  /\ \E name \in FileNames : \E s \in WorkerScripts :
       /\ endsWith(toLowerCase(name), sDotOlm)
       /\ app' = [app EXCEPT !.fileName = name, !.state = "processing", !.progress = 0]
       /\ workers' = Append(workers,
                            [file |-> name, extractFromPreview |-> app.extractFromPreview,
                             script |-> s, live |-> TRUE, ended |-> "none"])
  /\ UNCHANGED <<nonAppVars, timers, alerts>>

\* worker.onmessage with a message of type 'progress'
OnProgress ==
  \E i \in 1..Len(workers) :
    /\ workers[i].live
    /\ workers[i].script # <<>>
    /\ Head(workers[i].script).type = "progress"
    /\ app' = [app EXCEPT !.progress = Head(workers[i].script).progress]
    /\ workers' = [workers EXCEPT ![i].script = Tail(@)]
    /\ UNCHANGED <<nonAppVars, timers, alerts>>

\* worker.onmessage with a message of another type: no branch takes it
OnDebug ==
  \E i \in 1..Len(workers) :
    /\ workers[i].live
    /\ workers[i].script # <<>>
    /\ Head(workers[i].script).type = "debug"
    /\ workers' = [workers EXCEPT ![i].script = Tail(@)]
    /\ UNCHANGED <<nonAppVars, app, timers, alerts>>

\* the handler as a bug would make it: the state is set at once and the result
\* is not stored
OnCompleteNoResult ==
  \E i \in 1..Len(workers) :
    /\ workers[i].live
    /\ workers[i].script # <<>>
    /\ Head(workers[i].script).type = "complete"
    /\ app' = [app EXCEPT !.progress = 100, !.state = "complete"]
    /\ workers' = [workers EXCEPT ![i] = terminate([@ EXCEPT !.script = Tail(@)], "complete")]
    /\ UNCHANGED <<nonAppVars, timers, alerts>>

\* worker.onmessage with a message of type 'complete'
OnComplete ==
  \E i \in 1..Len(workers) :
    /\ workers[i].live
    /\ workers[i].script # <<>>
    /\ Head(workers[i].script).type = "complete"
    /\ app' = [app EXCEPT !.progress = 100, !.result = Head(workers[i].script).result]
    /\ timers' = timers + 1
    /\ workers' = [workers EXCEPT ![i] = terminate([@ EXCEPT !.script = Tail(@)], "complete")]
    /\ UNCHANGED <<nonAppVars, alerts>>

\* the handler as a bug would make it: the worker is left running
OnErrorMessageKeepsWorker ==
  \E i \in 1..Len(workers) :
    /\ workers[i].live
    /\ workers[i].script # <<>>
    /\ Head(workers[i].script).type = "error"
    /\ alerts' = Append(alerts, AlertError)
    /\ app' = [app EXCEPT !.state = "idle", !.progress = 0]
    /\ workers' = [workers EXCEPT ![i].script = Tail(@)]
    /\ UNCHANGED <<nonAppVars, timers>>

\* worker.onmessage with a message of type 'error'
OnErrorMessage ==
  \E i \in 1..Len(workers) :
    /\ workers[i].live
    /\ workers[i].script # <<>>
    /\ Head(workers[i].script).type = "error"
    /\ alerts' = Append(alerts, AlertError)
    /\ app' = [app EXCEPT !.state = "idle", !.progress = 0]
    /\ workers' = [workers EXCEPT ![i] = terminate([@ EXCEPT !.script = Tail(@)], "error")]
    /\ UNCHANGED <<nonAppVars, timers>>

\* worker.onerror: the worker raised an error event
OnError ==
  \E i \in 1..Len(workers) :
    /\ workers[i].live
    /\ alerts' = Append(alerts, AlertProcessing)
    /\ app' = [app EXCEPT !.state = "idle", !.progress = 0]
    /\ workers' = [workers EXCEPT ![i] = terminate(@, "onerror")]
    /\ UNCHANGED <<nonAppVars, timers>>

\* the callback of setTimeout(..., 300)
TimerFires ==
  /\ timers > 0
  /\ timers' = timers - 1
  /\ app' = [app EXCEPT !.state = "complete"]
  /\ UNCHANGED <<nonAppVars, workers, alerts>>

\* reset: the button of the results section, rendered when state is
\* 'complete' and result is not null
Reset ==
  /\ app.state = "complete"
  /\ app.result # NullResult
  /\ app' = [app EXCEPT !.state = "idle", !.progress = 0, !.result = NullResult,
                        !.fileName = <<>>]
  /\ UNCHANGED <<nonAppVars, workers, timers, alerts>>

NextApp ==
  \/ SetExtractFromPreview
  \/ HandleFileRejected
  \/ HandleFile
  \/ OnProgress
  \/ OnDebug
  \/ OnComplete
  \/ OnErrorMessage
  \/ OnError
  \/ TimerFires
  \/ Reset

SpecApp == InitApp /\ [][NextApp]_vars

---------------------------------------------------------------------------
(* Properties of the App *)

Live == {i \in 1..Len(workers) : workers[i].live}

\* the step handles a failure report of a worker: one of the two error alerts
\* is shown
FailureHandled ==
  \E a \in {AlertError, AlertProcessing} : alerts' = Append(alerts, a)

\* the step creates a worker
WorkerCreated == Len(workers') > Len(workers)

\* the step is a selection or drop of a file without the extension
SelectionRejected == alerts' = Append(alerts, AlertUpload)

\* C24: when the worker reports a failure (an 'error' message or its onerror
\* event) the App goes to 'idle' with progress 0, terminates that worker and
\* leaves result unchanged, and no worker is created by that step (no retry): a
\* worker is created only by handleFile, from 'idle', on a file whose name
\* ends in .olm (in any letter case), and handleFile on any other file creates
\* no worker and leaves the state unchanged.
C24_FailureReturnsToIdle ==
  [][ /\ FailureHandled =>
           /\ app'.state = "idle"
           /\ app'.progress = 0
           /\ app'.result = app.result
           /\ Len(workers') = Len(workers)
           /\ \E i \in Live :
                /\ ~workers'[i].live
                /\ workers'[i].ended \in {"error", "onerror"}
           /\ \A i \in 1..Len(workers') : ~workers'[i].live
      /\ WorkerCreated =>
           /\ app.state = "idle"
           /\ Len(workers') = Len(workers) + 1
           /\ endsWith(toLowerCase(workers'[Len(workers')].file), sDotOlm)
           /\ app'.fileName = workers'[Len(workers')].file
           /\ alerts' = alerts
      /\ SelectionRejected =>
           /\ workers' = workers
           /\ app' = app
           /\ timers' = timers
    ]_vars

\* a worker's failure has been handled, the App is back in 'idle', and only
\* the user's next selection has created the second worker
C24_Witness ==
  /\ Len(workers) = 2
  /\ workers[1].ended \in {"error", "onerror"}
  /\ ~workers[1].live
  /\ workers[2].live
  /\ app.state = "processing"
  /\ \E k \in 1..Len(alerts) : alerts[k] \in {AlertError, AlertProcessing}

---------------------------------------------------------------------------
(* The order of the worker's observations within one member: members that  *)
(* list one address in several containers and in the preview, in every     *)
(* document order.                                                         *)

sCy == <<"C","y">>

\* "To: Cy <Ann@x>" as the member's text holds it
sPreviewAnnXml == <<"T","o",":"," ">> \o sCy \o <<" ">> \o EntLt \o sAnnAddr \o EntGt

oFrom    == Container("OPFMessageCopyFromAddresses", <<Entry(sAnnAddr, sAnn)>>)
oTo      == Container("OPFMessageCopyToAddresses", <<Entry(sAnnAddr, sToName)>>)
oCc      == Container("OPFMessageCopyCCAddresses", <<Entry(sAnnAddr, sJD), EntryNoName(sBobAddr)>>)
oBcc     == Container("OPFMessageCopyBCCAddresses", <<Entry(sAnnAddr, sJaneDoe)>>)
oReplyTo == Container("OPFMessageCopyReplyToAddresses", <<Entry(sAnnAddr, sDest)>>)
oPreview == Preview(sPreviewAnnXml)

OrderElems == {oFrom, oTo, oCc, oBcc, oReplyTo, oPreview}

InitRoleOrder ==
  /\ archive \in {[loadable |-> TRUE, members |-> <<Member(es)>>] :
                    es \in SeqsUpTo(OrderElems, MaxElems)}
  /\ extractFromPreview \in BOOLEAN
  /\ pc = "start"
  /\ totalFiles = 0
  /\ processedFiles = 0
  /\ parseErrors = 0
  /\ contacts = <<>>
  /\ pending = <<>>
  /\ observed = <<>>
  /\ msgs = <<>>
  /\ result = NoResult
  /\ contactsB = <<>>
  /\ pendingB = <<>>
  /\ previewArg = <<>>
  /\ xmlBytes = <<>>
  /\ xmlContent = <<>>
  /\ runs = <<>>
  /\ app = <<>>
  /\ workers = <<>>
  /\ timers = 0
  /\ alerts = <<>>
  /\ input = <<>>
  /\ tempDir = <<>>
  /\ dirs = {}
  /\ walk = <<>>
  /\ fileCount = 0
  /\ visited = <<>>
  /\ parsed = <<>>

NextRoleOrder ==
  \/ StartRun
  \/ BeginMember
  \/ Observe
  \/ EndMember

SpecRoleOrder == InitRoleOrder /\ [][NextRoleOrder]_vars

\* the place of an element's observations in the fixed order
RankOfTag(tag) ==
  CASE tag = "OPFMessageCopyFromAddresses"    -> 1
    [] tag = "OPFMessageCopyToAddresses"      -> 2
    [] tag = "OPFMessageCopyCCAddresses"      -> 3
    [] tag = "OPFMessageCopyBCCAddresses"     -> 4
    [] tag = "OPFMessageCopyReplyToAddresses" -> 5
    [] tag = PreviewTag                       -> 6

\* the candidates of one element: its accepted entries, or its preview matches
ElementCandidates(el) ==
  IF NameOf(el.tag) = PreviewTag
    THEN lowerEmails(extractEmailsFromPreview(decodeXmlEntities(stripTags(el.text))))
    ELSE EntryCandidates(el.entries, NameOf(el.tag))

\* the candidates of the elements of one rank, in document order
RECURSIVE CandidatesOfRank(_, _)
CandidatesOfRank(elems, r) ==
  IF elems = <<>> THEN <<>>
  ELSE (IF RankOfTag(NameOf(Head(elems).tag)) = r THEN ElementCandidates(Head(elems)) ELSE <<>>)
       \o CandidatesOfRank(Tail(elems), r)

\* all entries of From containers, then To, CC, BCC, ReplyTo, then the preview
FixedOrder(elems, flag) ==
  CandidatesOfRank(elems, 1) \o CandidatesOfRank(elems, 2) \o CandidatesOfRank(elems, 3)
    \o CandidatesOfRank(elems, 4) \o CandidatesOfRank(elems, 5)
    \o (IF flag THEN CandidatesOfRank(elems, 6) ELSE <<>>)

\* the member's first To container lies ahead of its first From container
ToBeforeFrom(elems) ==
  \E i \in 1..Len(elems) : \E j \in (i + 1)..Len(elems) :
    /\ NameOf(elems[i].tag) = "OPFMessageCopyToAddresses"
    /\ NameOf(elems[j].tag) = "OPFMessageCopyFromAddresses"
    /\ \A k \in 1..(j - 1) : NameOf(elems[k].tag) # "OPFMessageCopyFromAddresses"

\* C25: within one member the worker's observations come in a fixed order that
\* does not depend on the place of the elements in the document: the entries
\* of From containers, then To, CC, BCC, ReplyTo, and only then the preview
\* matches; so an address first seen in a member that lists it in a To
\* container and, further down, in a From container gets roleTag from.
C25_FixedObservationOrder ==
  (pc = "loop" /\ processedFiles = 1) =>
    \A elems \in {archive.members[1].elems} :
      /\ observed = FixedOrder(elems, extractFromPreview)
      /\ ToBeforeFrom(elems) =>
           \E i \in 1..Len(contacts) :
             /\ contacts[i].email = toLowerCase(sAnnAddr)
             /\ contacts[i].source = "from"
             /\ contacts[i].name = sAnn
             /\ contacts[i].count >= 2

\* the member lists the address in a To container first and in a From
\* container after it, has a preview, and has been processed
C25_Witness ==
  /\ pc = "loop" /\ processedFiles = 1
  /\ extractFromPreview
  /\ archive.members[1].elems = <<oTo, oPreview, oFrom>>
  /\ Len(observed) = 3
  /\ observed[1].source = "from" /\ observed[3].name = sCy

---------------------------------------------------------------------------
(* The command-line tool's inline folds against the worker's addContact:   *)
(* one sequence of candidates folded into two registries, contacts by      *)
(* addContact and contactsB by the fold of the branch that observes it.    *)

InitFold ==
  /\ pending \in SeqsUpTo(OrderCandidates, MaxCands)
  /\ pendingB = pending
  /\ archive = [a |-> pending, b |-> pending]
  /\ extractFromPreview = TRUE
  /\ pc = "fold"
  /\ totalFiles = 0
  /\ processedFiles = 0
  /\ parseErrors = 0
  /\ contacts = <<>>
  /\ contactsB = <<>>
  /\ observed = <<>>
  /\ msgs = <<>>
  /\ result = NoResult
  /\ previewArg = <<>>
  /\ xmlBytes = <<>>
  /\ xmlContent = <<>>
  /\ runs = <<>>
  /\ app = <<>>
  /\ workers = <<>>
  /\ timers = 0
  /\ alerts = <<>>
  /\ input = <<>>
  /\ tempDir = <<>>
  /\ dirs = {}
  /\ walk = <<>>
  /\ fileCount = 0
  /\ visited = <<>>
  /\ parsed = <<>>

\* the next candidate comes from an address entry: addContact in the worker,
\* the attribute branch's fold in searchObject
ObserveStructured ==
  /\ pc = "fold"
  /\ pending # <<>>
  /\ contacts' = addContact(contacts, Head(pending).email, Head(pending).name,
                            Head(pending).source)
  /\ contactsB' = foldStructured(contactsB, Head(pendingB).email, Head(pendingB).name,
                                 Head(pendingB).source)
  /\ pending' = Tail(pending)
  /\ pendingB' = Tail(pendingB)
  /\ observed' = Append(observed, [email |-> Head(pending).email, name |-> Head(pending).name,
                                   source |-> Head(pending).source, branch |-> "structured"])
  /\ UNCHANGED <<appVars, cliVars, runs, archive, extractFromPreview, pc, totalFiles, processedFiles,
                 parseErrors, msgs, result, previewArg, xmlBytes, xmlContent>>

\* the next candidate comes from a preview match: addContact in the worker,
\* the preview branch's fold in searchObject
ObservePreview ==
  /\ pc = "fold"
  /\ pending # <<>>
  /\ contacts' = addContact(contacts, Head(pending).email, Head(pending).name,
                            Head(pending).source)
  /\ contactsB' = foldPreview(contactsB, Head(pendingB).email, Head(pendingB).name,
                              Head(pendingB).source)
  /\ pending' = Tail(pending)
  /\ pendingB' = Tail(pendingB)
  /\ observed' = Append(observed, [email |-> Head(pending).email, name |-> Head(pending).name,
                                   source |-> Head(pending).source, branch |-> "preview"])
  /\ UNCHANGED <<appVars, cliVars, runs, archive, extractFromPreview, pc, totalFiles, processedFiles,
                 parseErrors, msgs, result, previewArg, xmlBytes, xmlContent>>

NextFold ==
  \/ ObserveStructured
  \/ ObservePreview

SpecFold == InitFold /\ [][NextFold]_vars

\* C26: fed the same candidates from the same registry, the inline folds of
\* searchObject (attribute branch and preview branch, in any mix) and the
\* worker's addContact reach registries with the same emails in the same
\* insertion order and the same name, roleTag and count for every email.
C26_FoldsAgree ==
  /\ Len(contactsB) = Len(contacts)
  /\ KeysOf(contactsB) = KeysOf(contacts)
  /\ \A i \in 1..Len(contacts) :
       /\ contactsB[i].key = contacts[i].key
       /\ contactsB[i].email = contacts[i].email
       /\ contactsB[i].name = contacts[i].name
       /\ contactsB[i].source = contacts[i].source
       /\ contactsB[i].count = contacts[i].count

\* three candidates folded, by both branches, one address seen again under
\* another role and with the first non-empty name
C26_Witness ==
  /\ pending = <<>>
  /\ Len(observed) = 3
  /\ \E i, j \in 1..3 : observed[i].branch = "structured" /\ observed[j].branch = "preview"
  /\ Len(contactsB) = 2
  /\ \E i \in 1..2 :
       /\ contactsB[i].count = 2
       /\ contactsB[i].name # <<>>
       /\ \E j, k \in 1..3 :
            /\ j < k
            /\ observed[j].email = contactsB[i].key /\ observed[k].email = contactsB[i].key
            /\ observed[j].name = <<>>
            /\ observed[k].source # observed[j].source
            /\ observed[k].branch = "preview" /\ observed[j].branch = "structured"

---------------------------------------------------------------------------
(* The worker's messages over long runs: archives of some hundred members, *)
(* enough for several progress messages within one run.                    *)

MaxManyFiles == 201

\* every k-th member unreadable (none when k = 0), the others one From entry
ManyMembers(n, k) ==
  [i \in 1..n |-> IF k # 0 /\ i % k = 0 THEN mUnreadable ELSE mJaneFrom]

\* a member count at which a posted progress value lies half way between two
\* integers (2300 of 4000 members are 57.5 %)
MaxHalfwayFiles == 4000

ManyArchives ==
  {[loadable |-> FALSE, members |-> <<>>], [loadable |-> TRUE, members |-> <<>>],
   [loadable |-> TRUE, members |-> ManyMembers(2, 0)],
   [loadable |-> TRUE, members |-> [i \in 1..MaxHalfwayFiles |-> Member(<<>>)]]}
    \cup {[loadable |-> TRUE, members |-> ManyMembers(n, k)] :
            n \in {MaxManyFiles - 101, MaxManyFiles - 1, MaxManyFiles},
            k \in {0, 2, 3, ProgressEvery}}

InitProgress ==
  /\ archive \in ManyArchives
  /\ extractFromPreview = FALSE
  /\ pc = "start"
  /\ totalFiles = 0
  /\ processedFiles = 0
  /\ parseErrors = 0
  /\ contacts = <<>>
  /\ pending = <<>>
  /\ observed = <<>>
  /\ msgs = <<>>
  /\ result = NoResult
  /\ contactsB = <<>>
  /\ pendingB = <<>>
  /\ previewArg = <<>>
  /\ xmlBytes = <<>>
  /\ xmlContent = <<>>
  /\ runs = <<>>
  /\ app = <<>>
  /\ workers = <<>>
  /\ timers = 0
  /\ alerts = <<>>
  /\ input = <<>>
  /\ tempDir = <<>>
  /\ dirs = {}
  /\ walk = <<>>
  /\ fileCount = 0
  /\ visited = <<>>
  /\ parsed = <<>>

SpecProgress == InitProgress /\ [][Next]_vars

Terminal(m) == m.type \in {"complete", "error"}

ProgressValues == SelectSeq(msgs, LAMBDA m : m.type = "progress")

\* C27: for one request the worker posts exactly one terminal message,
\* 'complete' or 'error', never both, and no 'progress' or 'debug' message
\* after it; every progress value lies in 0..100 and the progress values of a
\* run never decrease.
C27_OneTerminalMessage ==
  /\ \A i \in 1..Len(msgs) : Terminal(msgs[i]) => i = Len(msgs)
  /\ pc = "done" <=> (msgs # <<>> /\ Terminal(msgs[Len(msgs)]))
  /\ \A i \in 1..Len(ProgressValues) :
       /\ ProgressValues[i].progress \in 0..100
       /\ \A j \in i..Len(ProgressValues) :
            ProgressValues[i].progress <= ProgressValues[j].progress

\* in the run of 4000 members the value posted after 2200 members is 55 and
\* the one after 2300 members is 57 (57.5 % as the doubles round it)
HalfwayRoundsBelow ==
  totalFiles = MaxHalfwayFiles /\ Len(ProgressValues) >= 23
    => /\ ProgressValues[22].progress = 55
       /\ ProgressValues[23].progress = 57

\* a run of 201 members that has posted three progress values, 50 after 100
\* members, 100 after 200 (99.5 %) and 100 at the end, and then 'complete'
C27_Witness ==
  /\ pc = "done"
  /\ totalFiles = MaxManyFiles
  /\ Len(ProgressValues) = 3
  /\ ProgressValues[1].progress = 50
  /\ ProgressValues[2].progress = 100
  /\ ProgressValues[3].progress = 100
  /\ msgs[Len(msgs)].type = "complete"

---------------------------------------------------------------------------
(* The App's 'complete' state and its workers *)

LiveIn(ws) == {i \in 1..Len(ws) : ws[i].live}

\* the step handles the final message of worker i, or its onerror event
FinalEventHandled(i) ==
  \/ /\ workers[i].script # <<>>
     /\ Head(workers[i].script).type \in {"complete", "error"}
     /\ workers'[i].script = Tail(workers[i].script)
  \/ /\ alerts' = Append(alerts, AlertProcessing)
     /\ workers'[i] # workers[i]

\* C28: the App enters 'complete' only from 'processing' and only after the
\* 'complete' message of a worker has been handled; whenever the state is
\* 'complete' the result is not null and progress is 100; and the only way out
\* of 'complete' is reset, which leaves 'idle', result null, progress 0 and an
\* empty file name.
C28_CompleteHasResult ==
  [][ /\ (app'.state = "complete" /\ app.state # "complete") =>
           /\ app.state = "processing"
           /\ \E i \in 1..Len(workers) :
                /\ workers[i].ended = "complete"
                /\ ~workers[i].live
                /\ endsWith(toLowerCase(app.fileName), sDotOlm)
           /\ workers' = workers
      /\ app'.state = "complete" =>
           /\ app'.result # NullResult
           /\ app'.result \in WorkerResults
           /\ app'.progress = 100
      /\ (app.state = "complete" /\ app' # app) =>
           app' = [state |-> "idle", extractFromPreview |-> app.extractFromPreview,
                   progress |-> 0, result |-> NullResult, fileName |-> <<>>]
    ]_vars

\* one run has completed, its result was shown, and reset has been pressed
C28_Witness ==
  /\ Len(workers) = 1
  /\ workers[1].ended = "complete"
  /\ timers = 0
  /\ alerts = <<>>
  /\ app.state = "idle"
  /\ app.result = NullResult
  /\ app.progress = 0
  /\ app.fileName = <<>>

\* C29: at most one worker is live at any time; a worker is created only while
\* the state is 'idle' and no worker is live; the state is 'processing' as long
\* as a worker is live; and the step that handles a worker's 'complete'
\* message, its 'error' message or its onerror event terminates that worker,
\* whatever the order of worker messages, error events, the timer and the
\* user's actions.
C29_AtMostOneWorker ==
  [][ /\ Cardinality(LiveIn(workers')) <= 1
      /\ LiveIn(workers') # {} => app'.state = "processing"
      /\ WorkerCreated =>
           /\ app.state = "idle"
           /\ LiveIn(workers) = {}
           /\ LiveIn(workers') = {Len(workers')}
      /\ \A i \in LiveIn(workers) :
           FinalEventHandled(i) =>
             /\ ~workers'[i].live
             /\ workers'[i].ended \in {"complete", "error", "onerror"}
      /\ \A i \in 1..Len(workers) :
           ~workers[i].live => workers'[i] = workers[i]
    ]_vars

\* two workers have run one after the other: the first was terminated on its
\* 'complete' message, the second on its onerror event
C29_Witness ==
  /\ Len(workers) = 2
  /\ workers[1].ended = "complete"
  /\ workers[2].ended = "onerror"
  /\ LiveIn(workers) = {}
  /\ app.state = "idle"

---------------------------------------------------------------------------
(* The temporary directory of the command-line tool *)

\* C30: given a file, the tool extracts it into a fresh temporary directory,
\* which exists while main scans and writes and is gone when main has
\* finished, whether extraction threw (extractOlmFile removes it and
\* rethrows) or scanning and writing threw or succeeded (main's finally block
\* removes it); given a directory, no temporary directory is ever created and
\* the input directory is never removed.
C30_TempDirRemoved ==
  /\ pc = "exit" => TempName \notin dirs
  /\ input.kind = "file" =>
       /\ pc = "main" => dirs \ {OutputDir} = {} /\ tempDir = NoDir
       /\ pc = "extract" => TempName \in dirs /\ tempDir = NoDir
       /\ pc \in {"scan", "walk", "write", "csv", "frequent", "vcf", "finally"} =>
            /\ input.extractable
            /\ tempDir = TempName
            /\ TempName \in dirs
  /\ input.kind = "directory" =>
       /\ tempDir = NoDir
       /\ dirs \ {OutputDir} = {InputDir}
  /\ input.kind = "missing" => dirs = {} /\ tempDir = NoDir
  /\ OutputDir \in dirs => input.outputExists \/ pc \in {"csv", "frequent", "vcf", "finally", "exit"}

\* a file was extracted and scanned, contacts.csv was written, the next
\* writeFile threw, and main has finished with the temporary directory removed
C30_Witness ==
  /\ pc = "exit"
  /\ input.kind = "file"
  /\ input.extractable
  /\ result.files = {"contacts.csv"}
  /\ result.csvData # <<>>
  /\ fileCount > 0
  /\ tempDir = TempName
  /\ TempName \notin dirs
====
